---- MODULE Spec2Model ----
(***************************************************************************)
(* Documentation synchronisation pipeline of nextai: content discovery     *)
(* (walk), per-document reconciliation against the nods_page /             *)
(* nods_page_section tables and the sequential driver (generateEmbeddings).*)
(*                                                                         *)
(* Strings that the code inspects (file names, paths) are sequences of     *)
(* one-character strings, so that join, the extension test and the         *)
(* path rewriting are computed, not assumed.                               *)
(***************************************************************************)
EXTENDS Integers, Sequences, FiniteSets, TLC

\* ------------------------------------------------------------------------
\* Bounds
\* ------------------------------------------------------------------------

\* Largest number of sections a document version of the model has.
MaxSections == 2

\* Largest number of top-level nodes of a document given to the segmenter alone.
MaxNodes == 4

\* Largest number of properties of a meta export given to the extraction of meta.
MaxProperties == 2

\* Largest number of pieces a raw text given to the checksum is made of.
MaxPieces == 5

\* Largest number of sections a page of the simpler generateEmbeddings is
\* left with when a delete that failed is followed by inserts.
MaxStored == 2

\* ------------------------------------------------------------------------
\* String literals
\* ------------------------------------------------------------------------

s_docs      == <<"d", "o", "c", "s">>
s_undefined == <<"u", "n", "d", "e", "f", "i", "n", "e", "d">>
s_03pages   == <<"0", "3", "-", "p", "a", "g", "e", "s">>
s_app       == <<"_", "a", "p", "p", ".", "m", "d", "x">>
s_document  == <<"_", "d", "o", "c", "u", "m", "e", "n", "t", ".", "m", "d", "x">>
s_error     == <<"_", "e", "r", "r", "o", "r", ".", "m", "d", "x">>
s_a_md      == <<"a", ".", "m", "d">>
s_a_mdx     == <<"a", ".", "m", "d", "x">>
s_b_md      == <<"b", ".", "m", "d">>
s_ab_md     == <<"a", "-", "b", ".", "m", "d">>
s_z_md      == <<"z", ".", "m", "d">>
s_x_md      == <<"x", ".", "m", "d">>
s_y_mdx     == <<"y", ".", "m", "d", "x">>
s_q_md      == <<"q", ".", "m", "d">>
s_notes_txt == <<"n", "o", "t", "e", "s", ".", "t", "x", "t">>
s_g_md      == <<"g", ".", "m", "d">>
s_a         == <<"a">>
s_g         == <<"g">>
s_sub       == <<"s", "u", "b">>
s_object    == <<"[", "o", "b", "j", "e", "c", "t", " ", "O", "b", "j", "e", "c", "t", "]">>
s_title     == <<"t", "i", "t", "l", "e", ":">>
s_meta      == <<"m", "e", "t", "a">>
s_Usage     == <<"U", "s", "a", "g", "e">>
s_Set_up    == <<"S", "e", "t", " ", "u", "p", "!">>
s_Usage_1   == <<"U", "s", "a", "g", "e", " ", "1">>
s_one       == <<"o", "n", "e">>
s_two       == <<"t", "w", "o">>
s_three     == <<"t", "h", "r", "e", "e">>
s_four      == <<"f", "o", "u", "r">>
s_five      == <<"f", "i", "v", "e">>

\* The value of an absent optional string (parentPath?: string).
Undefined == <<>>

\* ------------------------------------------------------------------------
\* Configuration
\* ------------------------------------------------------------------------

ignoredDirectories == {s_03pages}

ignoredFiles == {s_app, s_document, s_error}

\* ------------------------------------------------------------------------
\* String helpers
\* ------------------------------------------------------------------------

\* path.join(dir, name) for a directory path and a plain entry name.
join(dir, name) == dir \o <<"/">> \o name

EndsWith(s, suffix) ==
    /\ Len(s) >= Len(suffix)
    /\ SubSeq(s, Len(s) - Len(suffix) + 1, Len(s)) = suffix

StartsWith(s, prefix) ==
    /\ Len(s) >= Len(prefix)
    /\ SubSeq(s, 1, Len(prefix)) = prefix

\* /\.mdx?$/.test(s)
hasMdxExtension(s) == EndsWith(s, <<".", "m", "d">>) \/ EndsWith(s, <<".", "m", "d", "x">>)

\* Collation order of the characters that occur in the modelled names:
\* punctuation before digits before letters.
Collation ==
    <<"_", "-", ".", "/",
      "0", "1", "2", "3", "4", "5", "6", "7", "8", "9",
      "a", "b", "c", "d", "e", "f", "g", "h", "i", "j", "k", "l", "m",
      "n", "o", "p", "q", "r", "s", "t", "u", "v", "w", "x", "y", "z">>

CharRank(c) == CHOOSE r \in 1..Len(Collation) : Collation[r] = c

RECURSIVE localeCompare(_, _)
\* a.localeCompare(b): negative, zero or positive.
localeCompare(a, b) ==
    IF a = <<>> /\ b = <<>> THEN 0
    ELSE IF a = <<>> THEN -1
    ELSE IF b = <<>> THEN 1
    ELSE IF CharRank(Head(a)) < CharRank(Head(b)) THEN -1
    ELSE IF CharRank(Head(a)) > CharRank(Head(b)) THEN 1
    ELSE localeCompare(Tail(a), Tail(b))

\* ------------------------------------------------------------------------
\* Content discovery: walk
\* ------------------------------------------------------------------------

File(n) == [name |-> n, type |-> "file"]
Dir(n)  == [name |-> n, type |-> "dir"]
Link(n) == [name |-> n, type |-> "symlink"]

RECURSIVE InsertSorted(_, _)
\* Position of e in an already sorted list, after every element that does
\* not compare greater (the sort is stable).
InsertSorted(e, sorted) ==
    IF sorted = <<>> THEN <<e>>
    ELSE IF localeCompare(Head(sorted).path, e.path) > 0 THEN <<e>> \o sorted
    ELSE <<Head(sorted)>> \o InsertSorted(e, Tail(sorted))

\* The array left in the order of the concatenation.
SortByPathOmitted(entries) == entries

RECURSIVE SortByPath(_)
\* flattenedFiles.sort((a, b) => a.path.localeCompare(b.path))
SortByPath(entries) ==
    IF entries = <<>> THEN <<>>
    ELSE InsertSorted(entries[Len(entries)], SortByPath(SubSeq(entries, 1, Len(entries) - 1)))

RECURSIVE Flatten(_)
\* entries.reduce((all, folderContents) => all.concat(folderContents), [])
Flatten(lists) ==
    IF lists = <<>> THEN <<>> ELSE Head(lists) \o Flatten(Tail(lists))

\* Only the file deny-list applied.
isIgnoredFileOnly(file) == file.name \in ignoredFiles /\ file.type = "file"

isIgnored(file) ==
    \/ file.name \in ignoredDirectories /\ file.type = "dir"
    \/ file.name \in ignoredFiles /\ file.type = "file"

\* The classification by name alone: whatever has the extension is an entry.
ClassifyByName(file) ==
    IF isIgnored(file) THEN "skip"
    ELSE IF hasMdxExtension(file.name) THEN "entry"
    ELSE IF file.type = "dir" THEN "recurse"
    ELSE "skip"

\* The classification made by the callback of files.map for one listed item.
Classify(file) ==
    IF isIgnored(file) THEN "skip"
    ELSE IF file.type = "dir" THEN "recurse"
    ELSE IF file.type = "file" /\ hasMdxExtension(file.name) THEN "entry"
    ELSE "skip"

\* Directories for which the callback starts a recursive walk.
SubWalks(dir, listing) ==
    { join(dir, listing[j].name) : j \in { n \in 1..Len(listing) : Classify(listing[n]) = "recurse" } }

\* ------------------------------------------------------------------------
\* Document segmenter
\* ------------------------------------------------------------------------

Heading(t)   == [type |-> "heading", text |-> t]
Paragraph(t) == [type |-> "paragraph", text |-> t]

\* An ObjectExpression of estree, and the program of an mdxjsEsm node that
\* is `export const <name> = <init>`.
ObjectExpression(properties) == [type |-> "ObjectExpression", properties |-> properties]

ExportConst(name, init) ==
    [type        |-> "ExportNamedDeclaration",
     declaration |-> [type |-> "VariableDeclaration",
                      id   |-> [type |-> "Identifier", name |-> name],
                      init |-> init]]

\* The mdxjsEsm node `export const <t> = {}`.
Esm(t) == [type |-> "mdxjsEsm", text |-> t, estree |-> ExportConst(t, ObjectExpression(<<>>))]

mdxNodeTypes ==
    {"mdxjsEsm", "mdxJsxFlowElement", "mdxJsxTextElement", "mdxFlowExpression", "mdxTextExpression"}

\* Texts that differ from one document (and one part) to the next.
Word(n) == <<s_one, s_two, s_three, s_four, s_five>>[n]

\* The document with n sections: a meta export, a preamble and n - 1
\* headed parts.  A document is the list of top-level nodes of its parse.
DocOf(n) ==
    <<Esm(s_meta), Paragraph(Word(n))>>
        \o Flatten([j \in 1..(n - 1) |-> <<Heading(s_Usage), Paragraph(Word(j))>>])

\* The document versions of the model: the shortest document and the longest.
Contents == {DocOf(1), DocOf(MaxSections)}

\* The documents given to the segmenter alone: every list of at most
\* MaxNodes nodes, each a heading (three texts, the slug of one being the
\* slug of another with a numeric suffix), a paragraph or a meta export.
NodeKinds ==
    {Heading(s_Usage), Heading(s_Usage_1), Heading(s_Set_up), Paragraph(s_one), Esm(s_meta)}

Bodies == UNION { [1..n -> NodeKinds] : n \in 0..MaxNodes }

\* The values of the literals of estree, each with its JavaScript type.
Number(n)   == <<"number", n>>
String(t)   == <<"string", t>>
Boolean(b)  == <<"boolean", b>>
NullValue   == <<"null">>

\* The values JavaScript takes for false in && and ||.
Falsy(value) == value \in {Number(0), String(<<>>), Boolean(FALSE), NullValue, Undefined}

\* Nodes of estree: an identifier, a literal, a property of an object
\* expression and a spread element.
Identifier(name) == [type |-> "Identifier", name |-> name]
Literal(value)   == [type |-> "Literal", value |-> value]
Property(key, value) == [type |-> "Property", key |-> key, value |-> value]
SpreadElement == [type |-> "SpreadElement"]

\* The properties of the meta exports given to the extraction: the keys a
\* and b, written as identifiers or as a quoted string; as values the
\* literals 1, 0, 'x', '', true, false and a reference to a variable.
MetaKeys == {Identifier(<<"a">>), Identifier(<<"b">>), Literal(String(<<"a">>))}

MetaValues ==
    { Literal(v) : v \in {Number(1), Number(0), String(<<"x">>), String(<<>>),
                          Boolean(TRUE), Boolean(FALSE)} }
        \cup {Identifier(<<"v">>)}

Properties == { Property(key, value) : key \in MetaKeys, value \in MetaValues } \cup {SpreadElement}

PropertyLists == UNION { [1..n -> Properties] : n \in 0..MaxProperties }

\* The mdxjsEsm node `export const meta = { <properties> }`.
MetaExport(properties) ==
    [type |-> "mdxjsEsm", text |-> s_meta, estree |-> ExportConst(s_meta, ObjectExpression(properties))]

\* The documents given to the extraction of meta: a meta export of every
\* list of properties, an export of another name, an export of meta that is
\* not an object, and no export at all; a paragraph after it.
MetaDocs ==
    { <<MetaExport(properties), Paragraph(s_one)>> : properties \in PropertyLists }
        \cup { <<Esm(s_one), Paragraph(s_one)>>,
               <<[type |-> "mdxjsEsm", text |-> s_meta, estree |-> ExportConst(s_meta, Literal(Number(1)))],
                 Paragraph(s_one)>>,
               <<Paragraph(s_one)>> }

\* (property.value.type === 'Literal' && property.value.value) || undefined
valueOf(property) ==
    IF property.value.type = "Literal" /\ ~Falsy(property.value.value)
    THEN property.value.value
    ELSE Undefined

\* (property.key.type === 'Identifier' && property.key.name) || undefined
keyOf(property) ==
    IF property.key.type = "Identifier" /\ property.key.name # <<>>
    THEN property.key.name
    ELSE Undefined

RECURSIVE reduceProperties(_, _)
\* node.properties.reduce((object, property) => ..., {}): an object is a
\* function from its keys to their values.
reduceProperties(properties, object) ==
    IF properties = <<>> THEN object
    ELSE LET property == Head(properties)
         IN  IF property.type # "Property"
             THEN reduceProperties(Tail(properties), object)
             ELSE IF keyOf(property) = Undefined
                  THEN reduceProperties(Tail(properties), object)
                  ELSE reduceProperties(Tail(properties),
                                        (keyOf(property) :> valueOf(property)) @@ object)

getObjectFromExpression(node) == reduceProperties(node.properties, <<>>)

\* The node is an export of a variable declaration of the identifier meta.
isMetaExport(node) ==
    /\ node.type = "mdxjsEsm"
    /\ node.estree.type = "ExportNamedDeclaration"
    /\ node.estree.declaration.type = "VariableDeclaration"
    /\ node.estree.declaration.id.type = "Identifier"
    /\ node.estree.declaration.id.name = s_meta

\* The meta of a document: Undefined without a meta export and when the
\* export is not an object expression.  NoMeta is the meta that is Undefined;
\* an object without keys is the empty function, which Undefined is as
\* well, so a meta is a record that says which of the two it is.
NoMeta == [defined |-> FALSE, object |-> <<>>]

extractMetaExport(children) ==
    LET found == SelectSeq(children, isMetaExport)
    IN  IF found = <<>> THEN NoMeta
        ELSE IF Head(found).estree.declaration.init.type # "ObjectExpression" THEN NoMeta
        ELSE [defined |-> TRUE, object |-> getObjectFromExpression(Head(found).estree.declaration.init)]

\* createHash('sha256').update(content).digest('base64'); the digest is
\* taken to be collision free.
sha256(content) == <<"sha256", content>>

\* The null checksum of a page record.
Null == <<>>

\* The second implementation, of the file with the simpler generateEmbeddings:
\* property.value.type === "Literal" ? property.value.value : undefined
SimpleValueOf(property) ==
    IF property.value.type = "Literal" THEN property.value.value ELSE Undefined

\* property.key.type === "Identifier" ? property.key.name : undefined
SimpleKeyOf(property) ==
    IF property.key.type = "Identifier" THEN property.key.name ELSE Undefined

RECURSIVE SimpleReduceProperties(_, _)
SimpleReduceProperties(properties, object) ==
    IF properties = <<>> THEN object
    ELSE LET property == Head(properties)
         IN  IF property.type # "Property"
             THEN SimpleReduceProperties(Tail(properties), object)
             ELSE IF SimpleKeyOf(property) \in {Undefined, <<>>}
                  THEN SimpleReduceProperties(Tail(properties), object)
                  ELSE SimpleReduceProperties(Tail(properties),
                           (SimpleKeyOf(property) :> SimpleValueOf(property)) @@ object)

SimpleExtractMetaExport(children) ==
    LET found == SelectSeq(children, isMetaExport)
    IN  IF found = <<>> THEN NoMeta
        ELSE IF Head(found).estree.declaration.init.type # "ObjectExpression" THEN NoMeta
        ELSE [defined |-> TRUE,
              object  |-> SimpleReduceProperties(Head(found).estree.declaration.init.properties, <<>>)]

\* The characters \s of a regular expression matches, as far as raw texts
\* hold them.
Whitespace == {" ", "\n", "\t"}

RECURSIVE SkipWhitespace(_, _)
\* \s*, greedy: the first position from p on that holds no whitespace.
SkipWhitespace(text, p) ==
    IF p <= Len(text) /\ text[p] \in Whitespace THEN SkipWhitespace(text, p + 1) ELSE p

RECURSIVE SkipToClose(_, _)
\* [^>]*, greedy: the first position from p on that holds ">", Len + 1 if none.
SkipToClose(text, p) ==
    IF p <= Len(text) /\ text[p] # ">" THEN SkipToClose(text, p + 1) ELSE p

\* The match of /(title:\s*)<([^>]+)>/ that starts at position p, if there
\* is one: the position of "<" and of ">".  Neither \s* nor [^>]+ can give
\* back a character to make a match that the greedy one misses.
MatchAt(text, p) ==
    LET open  == SkipWhitespace(text, p + Len(s_title))
        close == SkipToClose(text, open + 1)
    IN  [found |-> /\ p + Len(s_title) - 1 <= Len(text)
                   /\ SubSeq(text, p, p + Len(s_title) - 1) = s_title
                   /\ open <= Len(text)
                   /\ text[open] = "<"
                   /\ close <= Len(text)
                   /\ close > open + 1,
         open  |-> open,
         close |-> close]

RECURSIVE replaceFrom(_, _)
\* The text from position p on, every match replaced by '$1$2'; the search
\* goes on after the end of a match.
replaceFrom(text, p) ==
    IF p > Len(text) THEN <<>>
    ELSE LET match == MatchAt(text, p)
         IN  IF match.found
             THEN SubSeq(text, p, match.open - 1)
                      \o SubSeq(text, match.open + 1, match.close - 1)
                      \o replaceFrom(text, match.close + 1)
             ELSE <<text[p]>> \o replaceFrom(text, p + 1)

\* if (content) content = content.replace(/(title:\s*)<([^>]+)>/g, '$1$2')
replace(content) == IF content = <<>> THEN content ELSE replaceFrom(content, 1)

\* The digest of the raw text as it was fetched.
checksumOfRaw(content) == sha256(content)

\* The checksum processMdxForSearch gives a raw text: the digest of the
\* text after the replacement.
checksumOf(content) == sha256(replace(content))

\* The raw texts given to the checksum: the texts made of at most MaxPieces
\* pieces, a piece being "title:", a space, "<", ">" or a letter.
Pieces == {s_title, <<" ">>, <<"<">>, <<">">>, <<"x">>}

RawTexts == { Flatten(pieces) : pieces \in UNION { [1..n -> Pieces] : n \in 0..MaxPieces } }

\* The raw texts every raw text is compared with.
Probes ==
    { Flatten(pieces) : pieces \in
        { <<s_title, <<"<">>, <<"x">>, <<">">>>>,
          <<s_title, <<" ">>, <<"<">>, <<"x">>, <<">">>>>,
          <<s_title, <<"x">>>>,
          <<s_title, <<" ">>, <<"x">>>>,
          <<s_title, <<"<">>, <<">">>>>,
          <<s_title, <<"<">>, <<"<">>, <<"x">>, <<">">>>>,
          <<s_title, <<"<">>, <<"x">>, <<">">>, <<">">>>>,
          <<<<"<">>, <<"x">>, <<">">>>>,
          <<<<"x">>>>,
          <<>> } }

\* filter(mdxTree, node => !mdxNodeTypes.includes(node.type)), top level.
filterMdx(children) == SelectSeq(children, LAMBDA node : node.type \notin mdxNodeTypes)

\* No node opens a new tree.
predicateNever(node) == FALSE

\* (node) => node.type === 'heading'
predicate(node) == node.type = "heading"

\* The node not added to the last tree.
pushNothing(children, node) == children

\* lastTree.children.push(node)
push(children, node) == Append(children, node)

RECURSIVE splitTreeBy(_)
\* splitTreeBy(tree, predicate): the list of node lists; a tree is opened
\* by the first node and by every node the predicate holds for.
splitTreeBy(children) ==
    IF children = <<>> THEN <<>>
    ELSE LET trees == splitTreeBy(SubSeq(children, 1, Len(children) - 1))
             node  == children[Len(children)]
         IN  IF trees = <<>> \/ predicate(node)
             THEN Append(trees, <<node>>)
             ELSE [trees EXCEPT ![Len(trees)] = push(@, node)]

\* toString(node): the text of a node.
toString(node) == node.text

\* The text of the first node of a tree, whatever the node.
headingOfAnyNode(firstNode) == toString(firstNode)

\* firstNode.type === 'heading' ? toString(firstNode) : undefined
headingOf(firstNode) ==
    IF firstNode.type = "heading" THEN toString(firstNode) ELSE Undefined

UpperCase ==
    <<"A", "B", "C", "D", "E", "F", "G", "H", "I", "J", "K", "L", "M",
      "N", "O", "P", "Q", "R", "S", "T", "U", "V", "W", "X", "Y", "Z">>

LowerCase ==
    <<"a", "b", "c", "d", "e", "f", "g", "h", "i", "j", "k", "l", "m",
      "n", "o", "p", "q", "r", "s", "t", "u", "v", "w", "x", "y", "z">>

\* c.toLowerCase()
toLowerCase(c) ==
    IF \E n \in 1..Len(UpperCase) : UpperCase[n] = c
    THEN LowerCase[CHOOSE n \in 1..Len(UpperCase) : UpperCase[n] = c]
    ELSE c

\* The characters github-slugger keeps: letters, digits, hyphen, underscore.
SlugChars ==
    {LowerCase[n] : n \in 1..Len(LowerCase)}
        \cup {"0", "1", "2", "3", "4", "5", "6", "7", "8", "9", "-", "_"}

RECURSIVE slugify(_)
\* value.toLowerCase().replace(regex, '').replace(/ /g, '-')
slugify(value) ==
    IF value = <<>> THEN <<>>
    ELSE LET c == toLowerCase(Head(value))
         IN  (IF c = " " THEN <<"-">> ELSE IF c \in SlugChars THEN <<c>> ELSE <<>>)
                 \o slugify(Tail(value))

RECURSIVE Decimal(_)
\* The decimal digits of a natural number.
Decimal(n) ==
    LET digit == <<"0", "1", "2", "3", "4", "5", "6", "7", "8", "9">>[(n % 10) + 1]
    IN  IF n < 10 THEN <<digit>> ELSE Append(Decimal(n \div 10), digit)

RECURSIVE SluggerLoop(_, _, _)
\* while (own.call(occurrences, result)) { occurrences[originalSlug]++;
\*     result = originalSlug + '-' + occurrences[originalSlug] }
\* occurrences[result] = 0
SluggerLoop(occurrences, originalSlug, result) ==
    IF result \in DOMAIN occurrences
    THEN LET counted == [occurrences EXCEPT ![originalSlug] = @ + 1]
         IN  SluggerLoop(counted, originalSlug,
                         originalSlug \o <<"-">> \o Decimal(counted[originalSlug]))
    ELSE [occurrences |-> (result :> 0) @@ occurrences, slug |-> result]

\* The slug of the text taken as it is, occurrences not looked at.
slugUncounted(occurrences, value) == [occurrences |-> occurrences, slug |-> slugify(value)]

\* slugger.slug(value), for the slugger in the state given by occurrences.
slug(occurrences, value) == SluggerLoop(occurrences, slugify(value), slugify(value))

\* The section made of one tree, and the slugger after it.
SectionOf(tree, occurrences) ==
    LET heading == headingOf(tree[1])
        slugged == IF heading # Undefined THEN slug(occurrences, heading)
                   ELSE [occurrences |-> occurrences, slug |-> Undefined]
    IN  [section     |-> [content |-> tree, heading |-> heading, slug |-> slugged.slug],
         occurrences |-> slugged.occurrences]

RECURSIVE SectionsOf(_, _)
\* sectionTrees.map(tree => ...), the trees in order, one slugger for all.
SectionsOf(sectionTrees, occurrences) ==
    IF sectionTrees = <<>> THEN <<>>
    ELSE LET first == SectionOf(Head(sectionTrees), occurrences)
         IN  <<first.section>> \o SectionsOf(Tail(sectionTrees), first.occurrences)

RECURSIVE OccurrencesAfter(_, _)
\* The occurrences table of the slugger after the trees have been mapped.
OccurrencesAfter(sectionTrees, occurrences) ==
    IF sectionTrees = <<>> THEN occurrences
    ELSE OccurrencesAfter(Tail(sectionTrees), SectionOf(Head(sectionTrees), occurrences).occurrences)

\* The occurrences table the slugger of the latest processMdxForSearch call
\* was left with; empty when no call was made.
VARIABLE slugger

\* One slugger for all calls: a call starts from the table the call before left.
GithubSluggerShared == slugger

\* new GithubSlugger(): the occurrences table of a new slugger is empty.
GithubSlugger == <<>>

\* The checksum and the sections of a document, and the table of the
\* slugger the call created.
processMdxForSearch(content) ==
    LET sectionTrees == splitTreeBy(filterMdx(content))
    IN  [checksum    |-> sha256(content),
         meta        |-> extractMetaExport(content),
         sections    |-> SectionsOf(sectionTrees, GithubSlugger),
         occurrences |-> OccurrencesAfter(sectionTrees, GithubSlugger)]

\* processMdxForSearch of the file with the simpler generateEmbeddings: the
\* checksum is the digest of the content as fetched.
SimpleProcessMdxForSearch(content) ==
    LET sectionTrees == splitTreeBy(filterMdx(content))
    IN  [checksum    |-> sha256(content),
         meta        |-> SimpleExtractMetaExport(content),
         sections    |-> SectionsOf(sectionTrees, GithubSlugger),
         occurrences |-> OccurrencesAfter(sectionTrees, GithubSlugger)]

\* processMdxForSearch of mdxUtils.ts.  A node of the tree is a plain
\* object: firstNode.toString() is the toString of Object.prototype, which
\* gives '[object Object]' for every node.
UtilsHeadingOf(firstNode) ==
    IF firstNode.type = "heading" THEN s_object ELSE Undefined

UtilsSectionOf(tree, occurrences) ==
    LET heading == UtilsHeadingOf(tree[1])
        slugged == IF heading # Undefined THEN slug(occurrences, heading)
                   ELSE [occurrences |-> occurrences, slug |-> Undefined]
    IN  [section     |-> [content |-> tree, heading |-> heading, slug |-> slugged.slug],
         occurrences |-> slugged.occurrences]

RECURSIVE UtilsSectionsOf(_, _)
UtilsSectionsOf(sectionTrees, occurrences) ==
    IF sectionTrees = <<>> THEN <<>>
    ELSE LET first == UtilsSectionOf(Head(sectionTrees), occurrences)
         IN  <<first.section>> \o UtilsSectionsOf(Tail(sectionTrees), first.occurrences)

RECURSIVE UtilsOccurrencesAfter(_, _)
UtilsOccurrencesAfter(sectionTrees, occurrences) ==
    IF sectionTrees = <<>> THEN occurrences
    ELSE UtilsOccurrencesAfter(Tail(sectionTrees),
                               UtilsSectionOf(Head(sectionTrees), occurrences).occurrences)

UtilsProcessMdxForSearch(content) ==
    LET sectionTrees == splitTreeBy(filterMdx(content))
    IN  [checksum    |-> sha256(content),
         meta        |-> extractMetaExport(content),
         sections    |-> UtilsSectionsOf(sectionTrees, GithubSlugger),
         occurrences |-> UtilsOccurrencesAfter(sectionTrees, GithubSlugger)]

\* ------------------------------------------------------------------------
\* Embedding sources
\* ------------------------------------------------------------------------

\* s.replace(/^docs/, '')
stripDocs(s) == IF StartsWith(s, s_docs) THEN SubSeq(s, Len(s_docs) + 1, Len(s)) ELSE s

\* s.replace(/\.mdx?$/, '')
stripExtension(s) ==
    IF EndsWith(s, <<".", "m", "d", "x">>) THEN SubSeq(s, 1, Len(s) - 4)
    ELSE IF EndsWith(s, <<".", "m", "d">>) THEN SubSeq(s, 1, Len(s) - 3)
    ELSE s

\* new GithubEmbeddingSource(source, filePath, parentFilePath)
GithubEmbeddingSource(source, filePath, parentFilePath) ==
    [type       |-> "github",
     source     |-> source,
     filePath   |-> filePath,
     path       |-> stripExtension(stripDocs(filePath)),
     parentPath |-> IF parentFilePath = Undefined THEN Undefined
                    ELSE stripExtension(stripDocs(parentFilePath))]

\* (await walk('docs')).filter(({ path }) => /\.mdx?$/.test(path))
\*     .map(entry => new GithubEmbeddingSource('guide', entry.path))
SourcesOf(entries) ==
    LET kept == SelectSeq(entries, LAMBDA e : hasMdxExtension(e.path))
    IN  [j \in 1..Len(kept) |-> GithubEmbeddingSource("guide", kept[j].path, Undefined)]

\* ------------------------------------------------------------------------
\* Remote content trees
\* ------------------------------------------------------------------------

\* The tree the reconciliation runs work on: two files that differ only in
\* their extension, and one file in a subdirectory.
RunTree ==
    (s_docs :> <<File(s_a_md), File(s_a_mdx), Dir(s_g)>>)
        @@ (join(s_docs, s_g) :> <<File(s_b_md)>>)

\* Trees for discovery alone: ignored directories at two depths with
\* eligible files below them, ignored and non-document files, a listing
\* whose concatenation is not in path order.
WalkTreeA ==
    (s_docs :> <<Dir(s_03pages), Dir(s_a), File(s_ab_md), File(s_app), File(s_notes_txt)>>)
        @@ (join(s_docs, s_03pages) :> <<File(s_x_md), Dir(s_sub)>>)
        @@ (join(join(s_docs, s_03pages), s_sub) :> <<File(s_y_mdx)>>)
        @@ (join(s_docs, s_a) :> <<File(s_z_md), Dir(s_03pages), Dir(s_sub)>>)
        @@ (join(join(s_docs, s_a), s_03pages) :> <<File(s_q_md)>>)
        @@ (join(join(s_docs, s_a), s_sub) :> <<File(s_y_mdx), File(s_error), Link(s_x_md)>>)

WalkTreeB ==
    (s_docs :> <<Dir(s_g), File(s_b_md), Dir(s_sub), File(s_a_mdx)>>)
        @@ (join(s_docs, s_g) :> <<File(s_q_md), File(s_document), Dir(s_a)>>)
        @@ (join(join(s_docs, s_g), s_a) :> <<>>)
        @@ (join(s_docs, s_sub) :> <<File(s_03pages), File(s_x_md)>>)

WalkTreeC ==
    (s_docs :> <<Dir(s_a), Dir(s_g), Dir(s_sub), File(s_z_md)>>)
        @@ (join(s_docs, s_a) :> <<File(s_a_md), File(s_a_mdx)>>)
        @@ (join(s_docs, s_g) :> <<Dir(s_03pages), File(s_b_md)>>)
        @@ (join(join(s_docs, s_g), s_03pages) :> <<File(s_q_md)>>)
        @@ (join(s_docs, s_sub) :> <<File(s_x_md), File(s_app)>>)

\* Directories named like a document and like an ignored file, with
\* documents in them.
WalkTreeD ==
    (s_docs :> <<Dir(s_x_md), Dir(s_app), File(s_z_md)>>)
        @@ (join(s_docs, s_x_md) :> <<File(s_b_md)>>)
        @@ (join(s_docs, s_app) :> <<File(s_q_md), File(s_app)>>)

\* A document next to the directory of its name, and a document inside it.
LegacyTree ==
    (s_docs :> <<File(s_g_md), Dir(s_g)>>)
        @@ (join(s_docs, s_g) :> <<File(s_b_md)>>)

\* One document, for the segmenter alone.
SegmentTree == (s_docs :> <<File(s_a_md)>>)

WalkTrees == {RunTree, WalkTreeA, WalkTreeB, WalkTreeC, WalkTreeD}

\* The files of a tree, as full paths.
FilesOf(t) ==
    UNION { { join(d, t[d][j].name) : j \in { n \in 1..Len(t[d]) : t[d][n].type = "file" } } : d \in DOMAIN t }

\* ------------------------------------------------------------------------
\* State
\* ------------------------------------------------------------------------

VARIABLES
    tree,             \* the remote content tree: directory path -> listing
    content,          \* the remote documents: file path -> content
    pages,            \* table nods_page: the record of page id j is pages[j]
    secs,             \* table nods_page_section: the sections of page id j, in order
    pc,               \* position of the run
    calls,            \* the walk invocations of this run: directory path -> state
    embeddingSources, \* the manifest of this run
    i,                \* index of the embedding source being processed
    checksum,         \* locals of the loop body
    meta,
    sections,
    existingPage,
    parentPage,
    page,
    k,                \* index of the section being embedded and inserted
    failedEntries,    \* history: the entries of this run whose processing threw
    prevClean,        \* history: the previous run completed and no call of it failed
    changed,          \* history: the files whose content changed since the previous run
    attempted,        \* history: the indexes of the entries the loop of this run has taken up, in order
    touched,          \* history: the page ids a write was issued for so far in the run in progress
    response,         \* what the driver reports for the run: "none" while there is no report
    env,              \* the configuration read from the environment: name -> value
    suspended         \* the state of the other run, waiting at a call of its own

store  == <<pages, secs>>
locals == <<checksum, meta, sections, existingPage, parentPage, page, k>>
ghosts == <<failedEntries, prevClean, changed, attempted>>
vars   == <<tree, content, pages, secs, pc, calls, embeddingSources, i,
            checksum, meta, sections, existingPage, parentPage, page, k,
            failedEntries, prevClean, changed, attempted, touched, response, slugger,
            env, suspended>>

\* No page: the id of an absent row.
NoPage == 0

NoExistingPage == [id |-> NoPage, checksum |-> Null, parentPath |-> Undefined]

\* ------------------------------------------------------------------------
\* walk: one invocation per directory, the listings in flight concurrently
\* ------------------------------------------------------------------------

Pending == [st |-> "pending", result |-> <<>>]

\* Promise.allSettled in place of Promise.all: a rejected branch counts as done.
PromiseAllSettled(states) == \A st \in states : st \in {"resolved", "rejected"}

\* Promise.all over the callbacks of one listing: fulfilled when every
\* recursive walk it started is fulfilled, rejected as soon as one is rejected.
PromiseAllFulfilled(states) == \A st \in states : st = "resolved"

PromiseAllRejected(states) == \E st \in states : st = "rejected"

SubStates(d) == { calls[x].st : x \in SubWalks(d, tree[d]) }

\* The value the callback of files.map returns for the item at position j.
EntriesOf(d, j, parentPath) ==
    LET file == tree[d][j]
        path == join(d, file.name)
    IN  IF Classify(file) = "recurse" THEN calls[path].result
        ELSE IF Classify(file) = "entry" THEN <<[path |-> path, parentPath |-> parentPath]>>
        ELSE <<>>

\* The array walk(d, parentPath) returns once Promise.all is fulfilled.
WalkResult(d, parentPath) ==
    SortByPath(Flatten([j \in 1..Len(tree[d]) |-> EntriesOf(d, j, parentPath)]))

\* The listing of d arrives: the callbacks run and start the recursive walks.
WalkResponse(d) ==
    /\ pc = "walk"
    /\ d \in DOMAIN calls
    /\ calls[d].st = "pending"
    /\ calls' = [x \in DOMAIN calls \cup SubWalks(d, tree[d]) |->
                    IF x = d THEN [st |-> "mapped", result |-> <<>>]
                    ELSE IF x \in DOMAIN calls THEN calls[x]
                    ELSE Pending]
    /\ UNCHANGED <<env, suspended, tree, content, store, pc, embeddingSources, i, locals, ghosts, touched, response, slugger>>

\* The listing of d fails: axios.get throws and walk(d) is rejected.
WalkError(d) ==
    /\ pc = "walk"
    /\ d \in DOMAIN calls
    /\ calls[d].st = "pending"
    /\ calls' = [calls EXCEPT ![d] = [st |-> "rejected", result |-> <<>>]]
    /\ UNCHANGED <<env, suspended, tree, content, store, pc, embeddingSources, i, locals, ghosts, touched, response, slugger>>

\* Every recursive walk of d is fulfilled: concatenate, sort, return.
WalkResolve(d) ==
    /\ pc = "walk"
    /\ d \in DOMAIN calls
    /\ calls[d].st = "mapped"
    /\ PromiseAllFulfilled(SubStates(d))
    /\ calls' = [calls EXCEPT ![d] = [st |-> "resolved", result |-> WalkResult(d, Undefined)]]
    /\ UNCHANGED <<env, suspended, tree, content, store, pc, embeddingSources, i, locals, ghosts, touched, response, slugger>>

\* A recursive walk of d is rejected: walk(d) is rejected with it.
WalkReject(d) ==
    /\ pc = "walk"
    /\ d \in DOMAIN calls
    /\ calls[d].st = "mapped"
    /\ PromiseAllRejected(SubStates(d))
    /\ calls' = [calls EXCEPT ![d] = [st |-> "rejected", result |-> <<>>]]
    /\ UNCHANGED <<env, suspended, tree, content, store, pc, embeddingSources, i, locals, ghosts, touched, response, slugger>>

\* ------------------------------------------------------------------------
\* The store
\* ------------------------------------------------------------------------

\* .from('nods_page').select().filter('path', 'eq', value).limit(1).maybeSingle():
\* the id of the row, NoPage when there is none.  The value is sent as text.
FilterValue(v) == IF v = Undefined THEN s_undefined ELSE v

\* The filter on path left out: limit(1) gives the first row of the table.
FindPageFirst(path) == IF pages = <<>> THEN NoPage ELSE 1

\* ....filter('path', 'eq', path).limit(1).maybeSingle()
FindPage(path) ==
    LET ids == { id \in 1..Len(pages) : pages[id].path = FilterValue(path) }
    IN  IF ids = {} THEN NoPage ELSE CHOOSE id \in ids : TRUE

\* select('id, path, checksum, parentPage:parent_page_id(id, path)')
SelectExisting(path) ==
    LET id == FindPage(path)
    IN  IF id = NoPage THEN NoExistingPage
        ELSE [id         |-> id,
              checksum   |-> pages[id].checksum,
              parentPath |-> IF pages[id].parent_page_id = NoPage THEN Undefined
                             ELSE pages[pages[id].parent_page_id].path]

\* The computed checksum written with the page, before its sections.
UpsertedChecksumComputed(computed) == computed

\* The checksum the upsert of a new or changed page writes.
UpsertedChecksum(computed) == Null

\* The old sections left in place.
DeleteSectionsOfNothing(s, id) == s

\* delete().filter('page_id', 'eq', id)
DeleteSectionsOf(s, id) == [s EXCEPT ![id] = <<>>]

\* upsert({checksum: null, path, type, source, meta, parent_page_id: parentPage?.id},
\*        {onConflict: 'path'}): an absent parent_page_id is not part of the row sent.
UpsertPage(src, computed, parent) ==
    LET id == FindPage(src.path)
    IN  IF id = NoPage
        THEN Append(pages, [path           |-> src.path,
                            checksum       |-> UpsertedChecksum(computed),
                            type           |-> src.type,
                            source         |-> src.source,
                            parent_page_id |-> parent])
        ELSE [pages EXCEPT ![id] = [path           |-> src.path,
                                    checksum       |-> UpsertedChecksum(computed),
                                    type           |-> src.type,
                                    source         |-> src.source,
                                    parent_page_id |-> IF parent = NoPage THEN @.parent_page_id
                                                       ELSE parent]]

\* ------------------------------------------------------------------------
\* generateEmbeddings
\* ------------------------------------------------------------------------

\* The driver's report of a run whose loop ran to its end, some entries
\* having failed: only when there are none is the run reported a success.
ReportOfFailures(failed) == IF failed = {} THEN "success" ELSE "failure"

\* main does not reject, the GET handler answers 'Embeddings generated
\* successfully.': the errors of the entries were caught inside the loop.
ReportOf(failed) == "success"

ResetLocals ==
    /\ checksum' = Null
    /\ meta' = NoMeta
    /\ sections' = <<>>
    /\ existingPage' = NoExistingPage
    /\ parentPage' = NoPage
    /\ page' = NoPage
    /\ k' = 0

\* The loop taken to skip the entry after the one it has finished.
FollowingSkipped(j) == j + 2

\* for (const embeddingSource of embeddingSources): the entry after entry j.
Following(j) == j + 1

\* The end of one iteration of the loop (continue, the end of the body, or
\* the catch block): on to the next embedding source, or the run is complete.
NextEntry(failed, written) ==
    /\ failedEntries' = failed
    /\ ResetLocals
    /\ IF i < Len(embeddingSources)
       THEN /\ i' = Following(i)
            /\ attempted' = Append(attempted, Following(i))
            /\ pc' = "load"
            /\ touched' = written
            /\ UNCHANGED <<prevClean, changed, response, slugger>>
       ELSE /\ i' = 0
            /\ pc' = "idle"
            /\ prevClean' = (failed = {})
            /\ changed' = {}
            /\ touched' = {}
            /\ response' = ReportOf(failed)
            /\ UNCHANGED <<slugger, attempted>>

\* The loop entered without waiting for the walk to be fulfilled.
NotAwaited(call) == call.st \in {"mapped", "resolved"}

\* await walk('docs'): generateEmbeddings goes on when the walk is fulfilled.
Awaited(call) == call.st = "resolved"

\* process.env.NAME || '': a variable that is not set reads as the empty string.
EnvNames == {"SUPABASE_URL", "SUPABASE_SERVICE_ROLE_KEY", "OPENAI_KEY"}

EnvValues == {"", "set"}

\* Every variable set.
Configured == [n \in EnvNames |-> "set"]

\* The embedding API key not asked for.
RequiredStoreOnly == {"SUPABASE_URL", "SUPABASE_SERVICE_ROLE_KEY"}

\* The variables generateEmbeddings asks for before anything else.
Required == {"SUPABASE_URL", "SUPABASE_SERVICE_ROLE_KEY", "OPENAI_KEY"}

\* !SUPABASE_URL || !SUPABASE_SERVICE_ROLE_KEY || !OPENAI_KEY
Skipping == \E n \in Required : env[n] = ""

\* A run starts: the environment is set, no refresh; walk('docs') is called.
StartRun ==
    /\ pc = "idle"
    /\ ~Skipping
    /\ pc' = "walk"
    /\ calls' = (s_docs :> Pending)
    /\ embeddingSources' = <<>>
    /\ failedEntries' = {}
    /\ touched' = {}
    /\ response' = "none"
    /\ attempted' = <<>>
    /\ UNCHANGED <<env, suspended, tree, content, store, i, locals, prevClean, changed, slugger>>

\* A run with a required variable empty: the message is logged and
\* generateEmbeddings returns; main is fulfilled.
SkipRun ==
    /\ pc = "idle"
    /\ Skipping
    /\ response' = ReportOf({})
    /\ UNCHANGED <<env, suspended, tree, content, store, pc, calls, embeddingSources, i, locals, ghosts,
                   touched, slugger>>

\* walk('docs') is fulfilled: the manifest is built and the loop starts.
Discover ==
    /\ pc = "walk"
    /\ Awaited(calls[s_docs])
    /\ LET sources == SourcesOf(calls[s_docs].result)
       IN  /\ embeddingSources' = sources
           /\ calls' = <<>>
           /\ IF sources = <<>>
              THEN /\ pc' = "idle"
                   /\ i' = 0
                   /\ prevClean' = TRUE
                   /\ changed' = {}
                   /\ response' = ReportOf({})
                   /\ UNCHANGED <<slugger, attempted>>
              ELSE /\ pc' = "load"
                   /\ i' = 1
                   /\ attempted' = <<1>>
                   /\ UNCHANGED <<prevClean, changed, response, slugger>>
    /\ UNCHANGED <<env, suspended, tree, content, store, locals, failedEntries, touched>>

\* walk('docs') is rejected: generateEmbeddings is rejected, main logs it.
DiscoverFails ==
    /\ pc = "walk"
    /\ calls[s_docs].st = "rejected"
    /\ pc' = "idle"
    /\ calls' = <<>>
    /\ prevClean' = FALSE
    /\ changed' = {}
    /\ response' = "failure"
    /\ UNCHANGED <<env, suspended, tree, content, store, embeddingSources, i, locals, failedEntries, attempted, touched, slugger>>

\* embeddingSource.load(): fetch the raw document and segment it.
Load ==
    /\ pc = "load"
    /\ LET processed == processMdxForSearch(content[embeddingSources[i].filePath])
       IN  /\ checksum' = processed.checksum
           /\ meta' = processed.meta
           /\ sections' = processed.sections
           /\ slugger' = processed.occurrences
    /\ pc' = "fetchPage"
    /\ UNCHANGED <<env, suspended, tree, content, store, calls, embeddingSources, i,
                   existingPage, parentPage, page, k, ghosts, touched, response>>

\* existingParentPage?.path !== parentPath, taken for true whatever the paths.
ParentChangedAlways(existing, src) == TRUE

\* existingParentPage?.path !== parentPath
ParentChanged(existing, src) == existing.parentPath # src.parentPath

\* The existing page is read and its checksum compared.
FetchPage ==
    /\ pc = "fetchPage"
    /\ LET src      == embeddingSources[i]
           existing == SelectExisting(src.path)
       IN  IF existing.id # NoPage /\ existing.checksum = checksum
           THEN IF ParentChanged(existing, src)
                THEN /\ existingPage' = existing
                     /\ pc' = "fetchParentOfUnchanged"
                     /\ UNCHANGED <<i, checksum, meta, sections, parentPage, page, k, ghosts, touched, response, slugger>>
                ELSE NextEntry(failedEntries, touched)
           ELSE /\ existingPage' = existing
                /\ pc' = IF existing.id # NoPage THEN "deleteSections" ELSE "fetchParentPage"
                /\ UNCHANGED <<i, checksum, meta, sections, parentPage, page, k, ghosts, touched, response, slugger>>
    /\ UNCHANGED <<env, suspended, tree, content, store, calls, embeddingSources>>

\* Unchanged page whose parent differs: the parent page is looked up ...
\* (generateEmbeddings builds every source without a parentFilePath and the
\* store starts empty, so no page of Spec ever has a parent link and this
\* branch is not entered there: NoParentLink.  The two actions are part of
\* SpecLegacy, whose store holds linked pages before the first run.)
FetchParentOfUnchanged ==
    /\ pc = "fetchParentOfUnchanged"
    /\ parentPage' = FindPage(embeddingSources[i].parentPath)
    /\ pc' = "updateParent"
    /\ UNCHANGED <<env, suspended, tree, content, store, calls, embeddingSources, i,
                   checksum, meta, sections, existingPage, page, k, ghosts, touched, response, slugger>>

\* ... and update({parent_page_id: parentPage?.id}) is sent for the page.
UpdateParent ==
    /\ pc = "updateParent"
    /\ pages' = IF parentPage = NoPage THEN pages
                ELSE [pages EXCEPT ![existingPage.id].parent_page_id = parentPage]
    /\ NextEntry(failedEntries, touched \cup {existingPage.id})
    /\ UNCHANGED <<env, suspended, tree, content, secs, calls, embeddingSources>>

\* The sections of the existing page are deleted.
DeleteSections ==
    /\ pc = "deleteSections"
    /\ secs' = DeleteSectionsOf(secs, existingPage.id)
    /\ pc' = "fetchParentPage"
    /\ touched' = touched \cup {existingPage.id}
    /\ UNCHANGED <<env, suspended, tree, content, pages, calls, embeddingSources, i, locals, ghosts, response, slugger>>

\* The parent page of the new or changed page is looked up.
FetchParentPage ==
    /\ pc = "fetchParentPage"
    /\ parentPage' = FindPage(embeddingSources[i].parentPath)
    /\ pc' = "upsertPage"
    /\ UNCHANGED <<env, suspended, tree, content, store, calls, embeddingSources, i,
                   checksum, meta, sections, existingPage, page, k, ghosts, touched, response, slugger>>

\* The page record is created or updated, its checksum cleared.
Upsert ==
    /\ pc = "upsertPage"
    /\ LET src == embeddingSources[i]
           id  == FindPage(src.path)
       IN  /\ pages' = UpsertPage(src, checksum, parentPage)
           /\ secs' = IF id = NoPage THEN Append(secs, <<>>) ELSE secs
           /\ page' = IF id = NoPage THEN Len(pages) + 1 ELSE id
    /\ k' = 1
    /\ pc' = IF sections = <<>> THEN "updateChecksum" ELSE "createEmbedding"
    /\ touched' = touched \cup {page'}
    /\ UNCHANGED <<env, suspended, tree, content, calls, embeddingSources, i,
                   checksum, meta, sections, existingPage, parentPage, ghosts, response, slugger>>

\* openai.createEmbedding for section k answers with status 200.
CreateEmbedding ==
    /\ pc = "createEmbedding"
    /\ pc' = "insertSection"
    /\ UNCHANGED <<env, suspended, tree, content, store, calls, embeddingSources, i, locals, ghosts, touched, response, slugger>>

\* The next section inserted without an embedding call of its own.
AfterInsertNoEmbedding(kk, n) == IF kk < n THEN "insertSection" ELSE "updateChecksum"

\* for (const { slug, heading, content } of sections): after the insert of
\* section kk of n, the embedding call of the next section, or the loop ends.
AfterInsert(kk, n) == IF kk < n THEN "createEmbedding" ELSE "updateChecksum"

\* Section k is inserted for the page.
InsertSection ==
    /\ pc = "insertSection"
    /\ secs' = [secs EXCEPT ![page] = Append(@, sections[k])]
    /\ k' = k + 1
    /\ pc' = AfterInsert(k, Len(sections))
    /\ touched' = touched \cup {page}
    /\ UNCHANGED <<env, suspended, tree, content, pages, calls, embeddingSources, i,
                   checksum, meta, sections, existingPage, parentPage, page, ghosts, response, slugger>>

\* Every section is stored: the page checksum is set.
UpdateChecksum ==
    /\ pc = "updateChecksum"
    /\ pages' = [pages EXCEPT ![page].checksum = checksum]
    /\ NextEntry(failedEntries, touched \cup {page})
    /\ UNCHANGED <<env, suspended, tree, content, secs, calls, embeddingSources>>

\* The positions of the loop body at which a collaborator is called.
CallPcs ==
    {"load", "fetchPage", "fetchParentOfUnchanged", "updateParent", "deleteSections",
     "fetchParentPage", "upsertPage", "createEmbedding", "insertSection", "updateChecksum"}

\* The positions at which the call is an embedding call or a store write.
WritePcs ==
    {"updateParent", "deleteSections", "upsertPage", "createEmbedding",
     "insertSection", "updateChecksum"}

\* The status of the embedding response not looked at: the loop body goes on
\* to the insert whatever the call answered.
RaisedUnlessEmbedding(position) == position # "createEmbedding"

\* if (embeddingResponse.status !== 200) throw ..., if (error) throw error,
\* and the errors the clients throw themselves: every failed call of the
\* loop body is raised to the catch block of the entry.
Raised(position) == TRUE

\* The call at the current position fails (a thrown error, an error result,
\* an embedding status other than 200): nothing is written by it; the catch
\* block logs the page and the loop goes on.
Throw ==
    /\ pc \in CallPcs
    /\ IF Raised(pc)
       THEN NextEntry(failedEntries \cup {i}, touched)
       ELSE /\ pc' = "insertSection"
            /\ failedEntries' = failedEntries \cup {i}
            /\ UNCHANGED <<i, locals, prevClean, changed, attempted, touched, response, slugger>>
    /\ UNCHANGED <<env, suspended, tree, content, store, calls, embeddingSources>>

\* ------------------------------------------------------------------------
\* Two runs at a time: each call of generateEmbeddings has its own locals and
\* client, the tables are shared, and nothing keeps a second run from being
\* started while the first waits at one of its calls.
\* ------------------------------------------------------------------------

\* The variables of one run.
RunState ==
    [pc |-> pc, calls |-> calls, embeddingSources |-> embeddingSources, i |-> i,
     checksum |-> checksum, meta |-> meta, sections |-> sections,
     existingPage |-> existingPage, parentPage |-> parentPage, page |-> page, k |-> k,
     slugger |-> slugger, failedEntries |-> failedEntries, attempted |-> attempted,
     touched |-> touched, response |-> response]

\* A run that has not started.
NoRun ==
    [pc |-> "idle", calls |-> <<>>, embeddingSources |-> <<>>, i |-> 0,
     checksum |-> Null, meta |-> NoMeta, sections |-> <<>>,
     existingPage |-> NoExistingPage, parentPage |-> NoPage, page |-> NoPage, k |-> 0,
     slugger |-> <<>>, failedEntries |-> {}, attempted |-> <<>>,
     touched |-> {}, response |-> "none"]

\* The run in the variables waits at its call (or has not started, or has
\* returned) and the other run is the one whose next step is taken.
Resume ==
    /\ suspended' = RunState
    /\ pc' = suspended.pc
    /\ calls' = suspended.calls
    /\ embeddingSources' = suspended.embeddingSources
    /\ i' = suspended.i
    /\ checksum' = suspended.checksum
    /\ meta' = suspended.meta
    /\ sections' = suspended.sections
    /\ existingPage' = suspended.existingPage
    /\ parentPage' = suspended.parentPage
    /\ page' = suspended.page
    /\ k' = suspended.k
    /\ slugger' = suspended.slugger
    /\ failedEntries' = suspended.failedEntries
    /\ attempted' = suspended.attempted
    /\ touched' = suspended.touched
    /\ response' = suspended.response
    /\ UNCHANGED <<env, tree, content, store, prevClean, changed>>

\* main(), or a GET of the route, once for each of the two runs.
Request ==
    /\ response = "none"
    /\ StartRun

\* ------------------------------------------------------------------------
\* The simpler generateEmbeddings: no parent pages.  Its discovery,
\* walkGithubDirectory, lists, classifies and sorts as walk does; the
\* parentPath it tags an entry with is dropped when the source is built.
\* The results of the store calls are used without a look at their error: a
\* store call that fails throws nothing.
\* ------------------------------------------------------------------------

\* load(): axios.get(`${GITHUB_URL}${this.path}`), the page path in place of
\* the file path.  The server is taken to answer a page path with the
\* document of a file of that page path (a server that does not makes every
\* load throw).
SimpleLoad ==
    /\ pc = "load"
    /\ \E f \in FilesOf(tree) :
          /\ GithubEmbeddingSource("guide", f, Undefined).path = embeddingSources[i].path
          /\ LET processed == SimpleProcessMdxForSearch(content[f])
             IN  /\ checksum' = processed.checksum
                 /\ meta' = processed.meta
                 /\ sections' = processed.sections
                 /\ slugger' = processed.occurrences
    /\ pc' = "fetchPage"
    /\ UNCHANGED <<env, suspended, tree, content, store, calls, embeddingSources, i,
                   existingPage, parentPage, page, k, ghosts, touched, response>>

\* select("id, path, checksum"); if (existingPage?.checksum === checksum) continue
SimpleFetchPage ==
    /\ pc = "fetchPage"
    /\ LET existing == SelectExisting(embeddingSources[i].path)
       IN  IF existing.id # NoPage /\ existing.checksum = checksum
           THEN NextEntry(failedEntries, touched)
           ELSE /\ existingPage' = existing
                /\ pc' = IF existing.id # NoPage THEN "deleteSections" ELSE "upsertPage"
                /\ UNCHANGED <<i, checksum, meta, sections, parentPage, page, k, ghosts, touched, response, slugger>>
    /\ UNCHANGED <<env, suspended, tree, content, store, calls, embeddingSources>>

\* if (existingPage) delete().eq("page_id", existingPage.id)
SimpleDeleteSections ==
    /\ pc = "deleteSections"
    /\ secs' = DeleteSectionsOf(secs, existingPage.id)
    /\ pc' = "upsertPage"
    /\ touched' = touched \cup {existingPage.id}
    /\ UNCHANGED <<env, suspended, tree, content, pages, calls, embeddingSources, i, locals, ghosts, response, slugger>>

\* upsert({checksum: null, path, type, source, meta}, {onConflict: "path"});
\* then the loop over the sections, and the end of the body after it: the
\* checksum is not written again.
SimpleUpsert ==
    /\ pc = "upsertPage"
    /\ LET src == embeddingSources[i]
           id  == FindPage(src.path)
           row == IF id = NoPage THEN Len(pages) + 1 ELSE id
       IN  /\ pages' = UpsertPage(src, checksum, NoPage)
           /\ secs' = IF id = NoPage THEN Append(secs, <<>>) ELSE secs
           /\ IF sections = <<>>
              THEN NextEntry(failedEntries, touched \cup {row})
              ELSE /\ page' = row
                   /\ k' = 1
                   /\ pc' = "createEmbedding"
                   /\ touched' = touched \cup {row}
                   /\ UNCHANGED <<i, checksum, meta, sections, existingPage, parentPage,
                                  ghosts, response, slugger>>
    /\ UNCHANGED <<env, suspended, tree, content, calls, embeddingSources>>

\* insert of section k; after the last section the body ends.
SimpleInsertSection ==
    /\ pc = "insertSection"
    /\ secs' = [secs EXCEPT ![page] = Append(@, sections[k])]
    /\ IF k < Len(sections)
       THEN /\ k' = k + 1
            /\ pc' = "createEmbedding"
            /\ touched' = touched \cup {page}
            /\ UNCHANGED <<i, checksum, meta, sections, existingPage, parentPage, page,
                           ghosts, response, slugger>>
       ELSE NextEntry(failedEntries, touched \cup {page})
    /\ UNCHANGED <<env, suspended, tree, content, pages, calls, embeddingSources>>

\* The positions at which a failed call throws: the fetch of the document,
\* and the embedding call (thrown by the client, or a status other than 200).
SimpleThrowPcs == {"load", "createEmbedding"}

SimpleThrow ==
    /\ pc \in SimpleThrowPcs
    /\ NextEntry(failedEntries \cup {i}, touched)
    /\ UNCHANGED <<env, suspended, tree, content, store, calls, embeddingSources>>

\* A store call answers with an error and no data, and the body goes on:
\* no existing page is seen, nothing is deleted, no page is returned (the
\* sections are skipped), the section is not inserted.  The sections of a
\* page pile up when they are inserted next to those that were not deleted:
\* the pile is kept within MaxStored.
SimpleStoreError ==
    /\ pc \in {"fetchPage", "deleteSections", "upsertPage", "insertSection"}
    /\ pc \in {"fetchPage", "deleteSections"} =>
          LET id == FindPage(embeddingSources[i].path)
          IN  id # NoPage => Len(secs[id]) + Len(sections) <= MaxStored
    /\ IF pc \in {"fetchPage", "deleteSections"}
       THEN /\ pc' = "upsertPage"
            /\ failedEntries' = failedEntries \cup {i}
            /\ UNCHANGED <<i, locals, prevClean, changed, attempted, touched, response, slugger>>
       ELSE IF pc = "insertSection" /\ k < Len(sections)
       THEN /\ k' = k + 1
            /\ pc' = "createEmbedding"
            /\ failedEntries' = failedEntries \cup {i}
            /\ UNCHANGED <<i, checksum, meta, sections, existingPage, parentPage, page,
                           prevClean, changed, attempted, touched, response, slugger>>
       ELSE NextEntry(failedEntries \cup {i}, touched)
    /\ UNCHANGED <<env, suspended, tree, content, store, calls, embeddingSources>>

\* Between two runs the content of a document changes upstream.
ContentChange(f) ==
    /\ pc = "idle"
    /\ f \notin changed
    /\ \E c \in Contents \ {content[f]} : content' = [content EXCEPT ![f] = c]
    /\ changed' = changed \cup {f}
    /\ UNCHANGED <<env, suspended, tree, store, pc, calls, embeddingSources, i, locals, failedEntries, prevClean, attempted,
                   touched, response, slugger>>

\* The document of the entry segmented by processMdxForSearch of mdxUtils.ts,
\* the function the route handler imports.
UtilsLoad ==
    /\ pc = "load"
    /\ LET processed == UtilsProcessMdxForSearch(content[embeddingSources[i].filePath])
       IN  /\ checksum' = processed.checksum
           /\ meta' = processed.meta
           /\ sections' = processed.sections
           /\ slugger' = processed.occurrences
    /\ pc' = "fetchPage"
    /\ UNCHANGED <<env, suspended, tree, content, store, calls, embeddingSources, i,
                   existingPage, parentPage, page, k, ghosts, touched, response>>

\* Between two runs a document is removed upstream: the listing of its
\* directory no longer names it.
RemoveUpstream(f) ==
    /\ pc = "idle"
    /\ f \in DOMAIN content
    /\ tree' = [d \in DOMAIN tree |-> SelectSeq(tree[d], LAMBDA item : join(d, item.name) # f)]
    /\ content' = [g \in DOMAIN content \ {f} |-> content[g]]
    /\ UNCHANGED <<env, suspended, store, pc, calls, embeddingSources, i, locals, ghosts,
                   touched, response, slugger>>

\* ------------------------------------------------------------------------
\* Specifications
\* ------------------------------------------------------------------------

InitLocals ==
    /\ checksum = Null
    /\ meta = NoMeta
    /\ sections = <<>>
    /\ existingPage = NoExistingPage
    /\ parentPage = NoPage
    /\ page = NoPage
    /\ k = 0

\* The store is empty before the first run.
Init ==
    /\ tree = RunTree
    /\ content \in [FilesOf(RunTree) -> Contents]
    /\ pages = <<>>
    /\ secs = <<>>
    /\ pc = "idle"
    /\ calls = <<>>
    /\ embeddingSources = <<>>
    /\ i = 0
    /\ InitLocals
    /\ failedEntries = {}
    /\ prevClean = FALSE
    /\ changed = {}
    /\ attempted = <<>>
    /\ touched = {}
    /\ response = "none"
    /\ slugger = <<>>
    /\ env = Configured
    /\ suspended = NoRun

Walk ==
    \E d \in DOMAIN tree : WalkResponse(d) \/ WalkError(d) \/ WalkResolve(d) \/ WalkReject(d)

Next ==
    \/ StartRun
    \/ Walk
    \/ Discover
    \/ DiscoverFails
    \/ Load
    \/ FetchPage
    \/ DeleteSections
    \/ FetchParentPage
    \/ Upsert
    \/ CreateEmbedding
    \/ InsertSection
    \/ UpdateChecksum
    \/ Throw
    \/ \E f \in DOMAIN content : ContentChange(f)

Spec == Init /\ [][Next]_vars

\* The steps of a run in progress: a call of a collaborator returns or
\* fails, and the code that awaits it goes on.
RunStep ==
    \/ Walk
    \/ Discover
    \/ DiscoverFails
    \/ Load
    \/ FetchPage
    \/ DeleteSections
    \/ FetchParentPage
    \/ Upsert
    \/ CreateEmbedding
    \/ InsertSection
    \/ UpdateChecksum
    \/ Throw

\* The runs over documents that do not change, the store empty before the
\* first run.
InitLive ==
    /\ Init
    /\ content = [f \in FilesOf(RunTree) |-> DocOf(MaxSections)]

NextLive == StartRun \/ RunStep

\* Weak fairness of RunStep, WF_vars(RunStep), with the state predicate in
\* place of ENABLED <<RunStep>>_vars that it is equal to: while a run is in
\* progress a step of it is possible (a listing is answered or refused, a
\* walk returns, the call of the loop body returns or fails), and between
\* two runs none is.
FairRunStep == <>[](pc # "idle") => []<><<RunStep>>_vars

\* The runs under the condition that every call of a collaborator
\* eventually returns or fails: a run in progress does not stand still for
\* ever.  Nothing makes a run start.
SpecLive == InitLive /\ [][NextLive]_vars /\ FairRunStep

\* Two runs over one document that does not change, the store empty before
\* them, and no call of either run failing.
InitOverlap ==
    /\ tree = SegmentTree
    /\ content = [f \in FilesOf(SegmentTree) |-> DocOf(MaxSections)]
    /\ pages = <<>>
    /\ secs = <<>>
    /\ pc = "idle"
    /\ calls = <<>>
    /\ embeddingSources = <<>>
    /\ i = 0
    /\ InitLocals
    /\ failedEntries = {}
    /\ prevClean = FALSE
    /\ changed = {}
    /\ attempted = <<>>
    /\ touched = {}
    /\ response = "none"
    /\ slugger = <<>>
    /\ env = Configured
    /\ suspended = NoRun

NextOverlap ==
    \/ Request
    \/ \E d \in DOMAIN tree : WalkResponse(d) \/ WalkResolve(d)
    \/ Discover
    \/ Load
    \/ FetchPage
    \/ DeleteSections
    \/ FetchParentPage
    \/ Upsert
    \/ CreateEmbedding
    \/ InsertSection
    \/ UpdateChecksum
    \/ Resume

SpecOverlap == InitOverlap /\ [][NextOverlap]_vars

\* The runs over a tree that loses documents between them; the two
\* documents of page path /a differ, so that the page is written in every run.
InitRemoved ==
    /\ tree = RunTree
    /\ content = [f \in FilesOf(RunTree) |->
                     IF f = join(s_docs, s_a_md) THEN DocOf(1) ELSE DocOf(MaxSections)]
    /\ pages = <<>>
    /\ secs = <<>>
    /\ pc = "idle"
    /\ calls = <<>>
    /\ embeddingSources = <<>>
    /\ i = 0
    /\ InitLocals
    /\ failedEntries = {}
    /\ prevClean = FALSE
    /\ changed = {}
    /\ attempted = <<>>
    /\ touched = {}
    /\ response = "none"
    /\ slugger = <<>>
    /\ env = Configured
    /\ suspended = NoRun

NextRemoved ==
    \/ StartRun
    \/ RunStep
    \/ \E f \in FilesOf(RunTree) : RemoveUpstream(f)

SpecRemoved == InitRemoved /\ [][NextRemoved]_vars

\* The runs under every setting of the environment.
InitEnv ==
    /\ tree = RunTree
    /\ content = [f \in FilesOf(RunTree) |-> DocOf(MaxSections)]
    /\ pages = <<>>
    /\ secs = <<>>
    /\ pc = "idle"
    /\ calls = <<>>
    /\ embeddingSources = <<>>
    /\ i = 0
    /\ InitLocals
    /\ failedEntries = {}
    /\ prevClean = FALSE
    /\ changed = {}
    /\ attempted = <<>>
    /\ touched = {}
    /\ response = "none"
    /\ slugger = <<>>
    /\ env \in [EnvNames -> EnvValues]
    /\ suspended = NoRun

NextEnv == StartRun \/ SkipRun \/ RunStep

SpecEnv == InitEnv /\ [][NextEnv]_vars

\* Discovery alone: walk('docs') over each of the trees.
InitWalk ==
    /\ tree \in WalkTrees
    /\ content = [f \in FilesOf(tree) |-> DocOf(1)]
    /\ pages = <<>>
    /\ secs = <<>>
    /\ pc = "walk"
    /\ calls = (s_docs :> Pending)
    /\ embeddingSources = <<>>
    /\ i = 0
    /\ InitLocals
    /\ failedEntries = {}
    /\ prevClean = FALSE
    /\ changed = {}
    /\ attempted = <<>>
    /\ touched = {}
    /\ response = "none"
    /\ slugger = <<>>
    /\ env = Configured
    /\ suspended = NoRun

NextWalk == Walk

SpecWalk == InitWalk /\ [][NextWalk]_vars

\* The segmenter alone: the load of one document, for every document of Bodies.
InitSegment ==
    /\ tree = SegmentTree
    /\ content \in [FilesOf(SegmentTree) -> Bodies]
    /\ pages = <<>>
    /\ secs = <<>>
    /\ pc = "load"
    /\ calls = <<>>
    /\ embeddingSources = SourcesOf(<<[path |-> join(s_docs, s_a_md), parentPath |-> Undefined]>>)
    /\ i = 1
    /\ InitLocals
    /\ failedEntries = {}
    /\ prevClean = FALSE
    /\ changed = {}
    /\ attempted = <<1>>
    /\ touched = {}
    /\ response = "none"
    /\ slugger = <<>>
    /\ env = Configured
    /\ suspended = NoRun

NextSegment == Load

SpecSegment == InitSegment /\ [][NextSegment]_vars

\* The three segmenters of the repository, each given every document of Bodies.
InitAgree == InitSegment

NextAgree == Load \/ SimpleLoad \/ UtilsLoad

SpecAgree == InitAgree /\ [][NextAgree]_vars

\* The extraction of meta alone: the load of one document, for every
\* document of MetaDocs.
InitMeta ==
    /\ tree = SegmentTree
    /\ content \in [FilesOf(SegmentTree) -> MetaDocs]
    /\ pages = <<>>
    /\ secs = <<>>
    /\ pc = "load"
    /\ calls = <<>>
    /\ embeddingSources = SourcesOf(<<[path |-> join(s_docs, s_a_md), parentPath |-> Undefined]>>)
    /\ i = 1
    /\ InitLocals
    /\ failedEntries = {}
    /\ prevClean = FALSE
    /\ changed = {}
    /\ attempted = <<1>>
    /\ touched = {}
    /\ response = "none"
    /\ slugger = <<>>
    /\ env = Configured
    /\ suspended = NoRun

NextMeta == Load

\* const checksum = createHash('sha256').update(content).digest('base64'),
\* of the raw text load() fetched, after the replacement.
Digest ==
    /\ pc = "load"
    /\ checksum' = checksumOf(content[embeddingSources[i].filePath])
    /\ pc' = "fetchPage"
    /\ UNCHANGED <<env, suspended, tree, content, store, calls, embeddingSources, i, meta, sections,
                   existingPage, parentPage, page, k, ghosts, touched, response, slugger>>

\* The checksum alone: the raw text of one document, for every text of RawTexts.
InitChecksum ==
    /\ tree = SegmentTree
    /\ content \in [FilesOf(SegmentTree) -> RawTexts]
    /\ pages = <<>>
    /\ secs = <<>>
    /\ pc = "load"
    /\ calls = <<>>
    /\ embeddingSources = SourcesOf(<<[path |-> join(s_docs, s_a_md), parentPath |-> Undefined]>>)
    /\ i = 1
    /\ InitLocals
    /\ failedEntries = {}
    /\ prevClean = FALSE
    /\ changed = {}
    /\ attempted = <<1>>
    /\ touched = {}
    /\ response = "none"
    /\ slugger = <<>>
    /\ env = Configured
    /\ suspended = NoRun

NextChecksum == Digest

SpecChecksum == InitChecksum /\ [][NextChecksum]_vars

SpecMeta == InitMeta /\ [][NextMeta]_vars

\* The simpler generateEmbeddings, the store empty before the first run.
InitSimple ==
    /\ tree = LegacyTree
    /\ content \in [FilesOf(LegacyTree) -> Contents]
    /\ pages = <<>>
    /\ secs = <<>>
    /\ pc = "idle"
    /\ calls = <<>>
    /\ embeddingSources = <<>>
    /\ i = 0
    /\ InitLocals
    /\ failedEntries = {}
    /\ prevClean = FALSE
    /\ changed = {}
    /\ attempted = <<>>
    /\ touched = {}
    /\ response = "none"
    /\ slugger = <<>>
    /\ env = Configured
    /\ suspended = NoRun

NextSimple ==
    \/ StartRun
    \/ Walk
    \/ Discover
    \/ DiscoverFails
    \/ SimpleLoad
    \/ SimpleFetchPage
    \/ SimpleDeleteSections
    \/ SimpleUpsert
    \/ CreateEmbedding
    \/ SimpleInsertSection
    \/ SimpleThrow
    \/ SimpleStoreError
    \/ \E f \in FilesOf(tree) : ContentChange(f)

SpecSimple == InitSimple /\ [][NextSimple]_vars

\* A store that holds linked pages before the first run of generateEmbeddings:
\* the tables are shared with the other writers of nods_page, which send
\* parent_page_id with the page.  Page /g/b is linked to page /g; each page
\* holds the sections of the version of its checksum.
LegacyPage(filePath, c, parent) ==
    LET src == GithubEmbeddingSource("guide", filePath, Undefined)
    IN  [path           |-> src.path,
         checksum       |-> processMdxForSearch(c).checksum,
         type           |-> src.type,
         source         |-> src.source,
         parent_page_id |-> parent]

LegacyPages ==
    <<LegacyPage(join(s_docs, s_g_md), DocOf(1), NoPage),
      LegacyPage(join(join(s_docs, s_g), s_b_md), DocOf(1), 1)>>

LegacySecs ==
    <<processMdxForSearch(DocOf(1)).sections, processMdxForSearch(DocOf(1)).sections>>

InitLegacy ==
    /\ tree = LegacyTree
    /\ content \in [FilesOf(LegacyTree) -> Contents]
    /\ pages = LegacyPages
    /\ secs = LegacySecs
    /\ pc = "idle"
    /\ calls = <<>>
    /\ embeddingSources = <<>>
    /\ i = 0
    /\ InitLocals
    /\ failedEntries = {}
    /\ prevClean = FALSE
    /\ changed = {}
    /\ attempted = <<>>
    /\ touched = {}
    /\ response = "none"
    /\ slugger = <<>>
    /\ env = Configured
    /\ suspended = NoRun

NextLegacy ==
    \/ Next
    \/ FetchParentOfUnchanged
    \/ UpdateParent

SpecLegacy == InitLegacy /\ [][NextLegacy]_vars

\* From the empty store no page gets a parent link and the branch that
\* relinks an unchanged page is never entered.
NoParentLink ==
    /\ \A id \in 1..Len(pages) : pages[id].parent_page_id = NoPage
    /\ pc \notin {"fetchParentOfUnchanged", "updateParent"}

\* ------------------------------------------------------------------------
\* Properties of reconciliation (specification Spec)
\* ------------------------------------------------------------------------

IsPrefix(s, t) == Len(s) <= Len(t) /\ SubSeq(t, 1, Len(s)) = s

PageIds == 1..Len(pages)

\* The document version a checksum was computed from.
VersionsOf(cs) == { c \in Contents : sha256(c) = cs }

\* The page of a non-null checksum holds exactly the sections of that version.
PageComplete(id) ==
    \E c \in VersionsOf(pages[id].checksum) : secs[id] = processMdxForSearch(c).sections

\* Entry j of the manifest is reconciled with the current content.
Reconciled(j) ==
    LET src       == embeddingSources[j]
        id        == FindPage(src.path)
        processed == processMdxForSearch(content[src.filePath])
    IN  /\ id # NoPage
        /\ pages[id].checksum = processed.checksum
        /\ secs[id] = processed.sections

\* Entry j is the only entry of the manifest with its page path.
OwnPage(j) ==
    \A h \in 1..Len(embeddingSources) :
        embeddingSources[h].path = embeddingSources[j].path => h = j

\* The run before this state ended normally, with a manifest.
RunEnded == pc = "idle" /\ embeddingSources # <<>>

\* C1: in the store left by any sequence of runs, a page with a non-null
\* checksum holds exactly the complete ordered sections of the document
\* version the checksum belongs to.
C1_ChecksumImpliesComplete ==
    pc = "idle" => \A id \in PageIds : pages[id].checksum # Null => PageComplete(id)

\* C2: the page of a new or changed document has a null checksum from the
\* upsert on, through every embedding call and section insert; the checksum
\* is set only to the computed value, only by the final update and only
\* when every section is stored; a failed embedding call or insert leaves
\* it null.
C2_ChecksumStep ==
    /\ pc \in {"createEmbedding", "insertSection", "updateChecksum"}
          => pages[page].checksum = Null
    /\ \A id \in PageIds :
          /\ Len(secs'[id]) > Len(secs[id])
                => pages[id].checksum = Null /\ pages'[id].checksum = Null
          /\ (pages'[id].checksum # pages[id].checksum /\ pages'[id].checksum # Null)
                => /\ pc = "updateChecksum"
                   /\ id = page
                   /\ pages'[id].checksum = checksum
                   /\ secs[id] = sections
    /\ \A id \in (Len(pages) + 1)..Len(pages') :
          pages'[id].checksum = Null /\ secs'[id] = <<>>
    /\ (pc \in {"createEmbedding", "insertSection"} /\ i \in failedEntries')
          => pages'[page].checksum = Null

C2_ChecksumSetLast == [][C2_ChecksumStep]_vars

\* A failed insertion has left a page with some sections and a null
\* checksum, next to a page whose checksum was set after all its sections.
C2_Witness ==
    /\ pc = "idle"
    /\ \E a, b \in PageIds :
          /\ pages[a].checksum = Null /\ secs[a] # <<>> /\ failedEntries # {}
          /\ pages[b].checksum # Null /\ Len(secs[b]) = MaxSections

\* C3: the run that follows a run without any failed call, the content
\* unchanged in between, issues no embedding call and no store write.
C3_SecondRunIdle ==
    (prevClean /\ changed = {}) => pc \notin WritePcs

\* C4: after a run in which no call failed, every entry of the manifest
\* (here: every entry that has its page path to itself) has a page with
\* the checksum and exactly the sections of its current document.
C4_CleanRunReconciles ==
    (RunEnded /\ prevClean /\ changed = {}) =>
        \A j \in 1..Len(embeddingSources) : OwnPage(j) => Reconciled(j)

\* C5: at the end of a run in which the processing of some entries threw,
\* every other entry (here: every other entry that has its page path to
\* itself) is fully reconciled.
C5_OthersReconciled ==
    (RunEnded /\ failedEntries # {} /\ changed = {}) =>
        \A j \in 1..Len(embeddingSources) :
            (j \notin failedEntries /\ OwnPage(j)) => Reconciled(j)

\* C6: when exactly one document changed since a run without failed calls,
\* the next run, as long as none of its calls has failed, issues embedding
\* calls and store writes for that document only.
C6_OnlyChangedRewritten ==
    (prevClean /\ Cardinality(changed) = 1 /\ failedEntries = {} /\ pc \in WritePcs) =>
        embeddingSources[i].filePath \in changed

\* C7: the sections stored for a page are at all times a prefix, in
\* document order and without repetition, of the sections of one document
\* version.
C7_SectionsArePrefix ==
    \A id \in PageIds :
        /\ \E c \in Contents : IsPrefix(secs[id], processMdxForSearch(c).sections)
        /\ \A a, b \in 1..Len(secs[id]) : secs[id][a] = secs[id][b] => a = b

\* A page left with a null checksum by an earlier attempt is being filled
\* again: its first section is stored, the second is about to be.
C7_Witness ==
    /\ pc = "insertSection"
    /\ existingPage.id # NoPage
    /\ existingPage.checksum = Null
    /\ k = 2
    /\ Len(secs[page]) = 1

\* ------------------------------------------------------------------------
\* Properties of discovery
\* ------------------------------------------------------------------------

SomeRejected == \E d \in DOMAIN calls : calls[d].st = "rejected"

\* C8: once the listing of any directory has failed, walk('docs') is never
\* fulfilled and a rejected walk carries no entries; the run leaves the
\* store as it is, builds no manifest and ends without entering the loop.
C8_FailedStep ==
    (pc = "walk" /\ SomeRejected) =>
        /\ calls[s_docs].st # "resolved"
        /\ \A d \in DOMAIN calls : calls[d].st = "rejected" => calls[d].result = <<>>
        /\ pc' \in {"walk", "idle"}
        /\ pages' = pages
        /\ secs' = secs
        /\ embeddingSources' = <<>>

C8_FailedListingAborts == [][C8_FailedStep]_vars

\* The listing of the subdirectory failed and the rejection reached walk('docs').
C8_Witness ==
    /\ pc = "walk"
    /\ calls[s_docs].st = "rejected"
    /\ join(s_docs, s_g) \in DOMAIN calls
    /\ calls[join(s_docs, s_g)].st = "rejected"

RECURSIVE Segments(_)
\* The names a path is made of.
Segments(path) ==
    IF \A n \in 1..Len(path) : path[n] # "/" THEN <<path>>
    ELSE LET n == CHOOSE m \in 1..Len(path) :
                      path[m] = "/" /\ \A h \in 1..(m - 1) : path[h] # "/"
         IN  <<SubSeq(path, 1, n - 1)>> \o Segments(SubSeq(path, n + 1, Len(path)))

\* The directories a file path lies in.
AncestorsOf(path) ==
    LET segs == Segments(path) IN { segs[n] : n \in 1..(Len(segs) - 1) }

DirNamesOf(dir) == LET segs == Segments(dir) IN { segs[n] : n \in 1..Len(segs) }

\* C9: no ignored directory is ever listed, and no entry returned by any
\* walk lies in an ignored directory, at any depth.
C9_IgnoredDirectoriesPruned ==
    \A d \in DOMAIN calls :
        /\ DirNamesOf(d) \cap ignoredDirectories = {}
        /\ \A n \in 1..Len(calls[d].result) :
              AncestorsOf(calls[d].result[n].path) \cap ignoredDirectories = {}

\* walk('docs') has returned for a tree with ignored directories that hold
\* eligible files, directly and in a nested directory.
C9_Witness ==
    /\ tree = WalkTreeA
    /\ calls[s_docs].st = "resolved"
    /\ calls[join(s_docs, s_a)].st = "resolved"

\* The eligible files of a tree, by the rules alone.
EligibleFiles(t) ==
    { f \in FilesOf(t) :
        LET segs == Segments(f)
            name == segs[Len(segs)]
        IN  /\ hasMdxExtension(name)
            /\ name \notin ignoredFiles
            /\ AncestorsOf(f) \cap ignoredDirectories = {} }

\* C10: whatever the order in which the listings complete, walk('docs')
\* returns the eligible files in strictly ascending path order: one
\* sequence per tree.
C10_ManifestSorted ==
    calls[s_docs].st = "resolved" =>
        LET result == calls[s_docs].result
        IN  /\ \A n \in 1..(Len(result) - 1) :
                  localeCompare(result[n].path, result[n + 1].path) < 0
            /\ { result[n].path : n \in 1..Len(result) } = EligibleFiles(tree)

\* walk('docs') has returned for the tree whose concatenated listings are
\* not in path order.
C10_Witness ==
    /\ tree = WalkTreeA
    /\ calls[s_docs].st = "resolved"
    /\ Len(calls[s_docs].result) = 3

\* ------------------------------------------------------------------------
\* Properties of parent resolution
\* ------------------------------------------------------------------------

\* The file lies in a subdirectory of the content root.
InSubdirectory(filePath) == Len(Segments(filePath)) > 2

\* C11: when reconciliation looks up the parent of a document that lies in
\* a subdirectory of the content root, the parentPath it looks up is
\* defined (the parent directory path tagged by discovery), not absent.
C11_ParentPathDefined ==
    (pc \in {"fetchParentPage", "fetchParentOfUnchanged"}
        /\ InSubdirectory(embeddingSources[i].filePath))
        => embeddingSources[i].parentPath # Undefined

C13_RelinkStep ==
    (pc = "updateParent" /\ pc' # "updateParent" /\ i \notin failedEntries')
        => /\ pages' = [pages EXCEPT ![existingPage.id].parent_page_id =
                            FindPage(embeddingSources[i].parentPath)]
           /\ secs' = secs
           /\ pc' \in {"load", "idle"}

UnchangedAndLinked ==
    LET src == embeddingSources[i]
        id  == FindPage(src.path)
    IN  /\ id # NoPage
        /\ pages[id].checksum = checksum
        /\ pages[id].parent_page_id = FindPage(src.parentPath)

\* C14: the step that follows the read of an unchanged page whose parent
\* link already is what parentPath resolves to (null when parentPath names
\* no page) ends the processing of the entry: no store write and no
\* embedding call is issued for it.
C14_SkipStep ==
    (pc = "fetchPage" /\ UnchangedAndLinked)
        => /\ pages' = pages
           /\ secs' = secs
           /\ touched' \subseteq touched
           /\ pc' \in {"load", "idle"}

C14_UnchangedPageSkipped == [][C14_SkipStep]_vars

\* The first entry of the manifest, unchanged and with a null parent link
\* in a store that holds a linked page, was passed over: the run is at the
\* second entry, nothing has failed and nothing has been written.
C14_Witness ==
    /\ pc = "load"
    /\ i = 2
    /\ failedEntries = {}
    /\ touched = {}
    /\ \E id \in PageIds : pages[id].parent_page_id # NoPage
    /\ LET id == FindPage(embeddingSources[1].path)
       IN  /\ id # NoPage
           /\ pages[id].checksum = processMdxForSearch(content[embeddingSources[1].filePath]).checksum
           /\ pages[id].parent_page_id = NoPage

\* ------------------------------------------------------------------------
\* Properties of the driver
\* ------------------------------------------------------------------------

\* C15: when the load of a document (fetch and segmentation) fails, the
\* step writes nothing and the run has issued no write for the page of
\* that document: the page and its sections are as they were before the run.
C15_LoadFailureStep ==
    (pc = "load" /\ i \in failedEntries')
        => /\ pages' = pages
           /\ secs' = secs
           /\ FindPage(embeddingSources[i].path) \notin touched

C15_FailedLoadLeavesPage == [][C15_LoadFailureStep]_vars

\* C16: an entry whose processing throws does not end the run: the loop
\* goes on with the next entry, and when the loop has run to its end the
\* driver reports success whatever entries failed; the driver reports
\* failure only when the walk, outside the loop, was rejected.
C16_ReportStep ==
    /\ (pc \in CallPcs /\ i \in failedEntries')
          => IF i < Len(embeddingSources)
             THEN pc' = "load" /\ i' = i + 1 /\ response' = "none"
             ELSE pc' = "idle" /\ response' = "success"
    /\ (pc \in CallPcs /\ pc' = "idle") => response' = "success"
    /\ (response' # response /\ response' = "failure")
          => pc = "walk" /\ calls[s_docs].st = "rejected"

C16_FailedEntriesReportedSuccess == [][C16_ReportStep]_vars

\* A run whose first entry failed went on, reconciled its last entry and
\* was reported a success.
C16_Witness ==
    /\ pc = "idle"
    /\ embeddingSources # <<>>
    /\ 1 \in failedEntries
    /\ Len(embeddingSources) \notin failedEntries
    /\ Reconciled(Len(embeddingSources))
    /\ response = "success"

\* C17: walk('docs') is invoked by the start of a run and by nothing else,
\* and the loop is entered only when every listing has been answered; no
\* listing is in flight while a document is processed; the index of the
\* document in process moves, by one, only when the processing of the
\* current entry has finished (stored, skipped, relinked or failed), and
\* the first call for the next entry is its load.
C17_SequentialStep ==
    /\ (s_docs \in DOMAIN calls' /\ s_docs \notin DOMAIN calls)
          => pc = "idle" /\ pc' = "walk"
    /\ pc = "walk" => i = 0 /\ embeddingSources = <<>> /\ touched = {}
    /\ (pc = "walk" /\ pc' # "walk" /\ response' # "failure")
          => \A d \in DOMAIN calls : calls[d].st = "resolved"
    /\ pc \in CallPcs => calls = <<>> /\ i \in 1..Len(embeddingSources)
    /\ (i # 0 /\ i' # i)
          => /\ \/ pc = "updateChecksum"
                \/ pc = "updateParent"
                \/ pc = "fetchPage"
                \/ i \in failedEntries'
             /\ \/ i' = i + 1 /\ pc' = "load"
                \/ i' = 0 /\ pc' = "idle" /\ i = Len(embeddingSources)

C17_OneDocumentInFlight == [][C17_SequentialStep]_vars

\* The first entry has been stored without a failure and the run is at
\* the load of the second entry, long after the walk.
C17_Witness ==
    /\ pc = "load"
    /\ i = 2
    /\ failedEntries = {}
    /\ touched # {}
    /\ Reconciled(1)
    /\ calls = <<>>

\* C18: the sections of a new or changed page are handled one at a time
\* in document order: when the embedding call for section k is issued the
\* sections 1..k-1, and only they, are stored for the page; an insert is
\* reached only from the embedding call of the same section and appends
\* that section; the next embedding call follows the insert.
C18_SectionStep ==
    /\ pc \in {"createEmbedding", "insertSection"}
          => /\ k \in 1..Len(sections)
             /\ secs[page] = SubSeq(sections, 1, k - 1)
    /\ (pc' = "insertSection" /\ (pc # "insertSection" \/ k' # k))
          => pc = "createEmbedding" /\ k' = k /\ page' = page
    /\ (pc = "insertSection" /\ secs' # secs)
          => secs' = [secs EXCEPT ![page] = Append(@, sections[k])]
    /\ (pc' = "createEmbedding" /\ pc # "createEmbedding")
          => \/ pc = "upsertPage" /\ k' = 1
             \/ pc = "insertSection" /\ k' = k + 1 /\ Len(secs'[page]) = k

C18_OneSectionAtATime == [][C18_SectionStep]_vars

\* The embedding call of the second section is about to be issued, the
\* first section being stored already.
C18_Witness ==
    /\ pc = "createEmbedding"
    /\ k = 2
    /\ secs[page] = <<sections[1]>>
    /\ Len(sections) >= 2

\* ------------------------------------------------------------------------
\* Properties of the segmenter
\* ------------------------------------------------------------------------

\* The stripped body of the document that was loaded.
LoadedBody == filterMdx(content[embeddingSources[i].filePath])

HeadingPositions(body) == { n \in 1..Len(body) : body[n].type = "heading" }

\* The positions at which a section starts: every heading, and the first
\* node of a body that has one.
StartPositions(body) ==
    HeadingPositions(body) \cup (IF body = <<>> THEN {} ELSE {1})

\* The j-th start position, and the last position before the next one.
StartAt(body, j) ==
    CHOOSE st \in StartPositions(body) :
        Cardinality({ x \in StartPositions(body) : x < st }) = j - 1

EndAt(body, j) ==
    IF j = Cardinality(StartPositions(body)) THEN Len(body) ELSE StartAt(body, j + 1) - 1

\* C19: the sections partition the stripped body in one pass: section j
\* runs from the j-th start position (a heading, or the first node) to the
\* node before the next heading; their number is the number of headings,
\* plus one when the body starts with a node that is not a heading; the
\* leading section of such a body has no heading.
C19_HeadingPartition ==
    pc = "fetchPage" =>
        LET body == LoadedBody
        IN  /\ Len(sections) = Cardinality(HeadingPositions(body))
                   + (IF body # <<>> /\ body[1].type # "heading" THEN 1 ELSE 0)
            /\ \A j \in 1..Len(sections) :
                  /\ sections[j].content = SubSeq(body, StartAt(body, j), EndAt(body, j))
                  /\ (j > 1 \/ body[1].type = "heading")
                        => sections[j].heading = body[StartAt(body, j)].text
            /\ (body # <<>> /\ body[1].type # "heading")
                  => sections[1].heading = Undefined

\* A body of a paragraph and two headed parts, with a meta export that is
\* stripped, was segmented into three sections.
C19_Witness ==
    /\ pc = "fetchPage"
    /\ Len(content[embeddingSources[i].filePath]) > Len(LoadedBody)
    /\ LoadedBody # <<>>
    /\ LoadedBody[1].type = "paragraph"
    /\ Cardinality(HeadingPositions(LoadedBody)) = 2
    /\ Len(sections) = 3

NoHeading(document) == \A n \in 1..Len(document) : document[n].type # "heading"

\* C20 as stated: every document without headings, whatever its body, is
\* segmented into exactly one section, without heading and slug.
C20_ExactlyOneSection ==
    (pc = "fetchPage" /\ NoHeading(content[embeddingSources[i].filePath]))
        => /\ Len(sections) = 1
           /\ sections[1].heading = Undefined
           /\ sections[1].slug = Undefined

\* C20, amended: a document without headings is segmented into exactly one
\* section, the whole stripped body without heading and slug, when a node
\* is left after stripping, and into no section when none is left.
C20_OneSectionUnlessEmpty ==
    (pc = "fetchPage" /\ NoHeading(content[embeddingSources[i].filePath]))
        => IF LoadedBody = <<>>
           THEN sections = <<>>
           ELSE /\ Len(sections) = 1
                /\ sections[1].content = LoadedBody
                /\ sections[1].heading = Undefined
                /\ sections[1].slug = Undefined

\* A document of two paragraphs and a meta export, without heading, was
\* segmented into one section.
C20_Witness ==
    /\ pc = "fetchPage"
    /\ NoHeading(content[embeddingSources[i].filePath])
    /\ Len(LoadedBody) = 2
    /\ Len(content[embeddingSources[i].filePath]) = 3
    /\ Len(sections) = 1

\* C21: the node lists of the sections, concatenated in section order, are
\* the list of top-level nodes of the stripped body: no node lost,
\* duplicated or moved.
C21_SectionsConcatenateToBody ==
    pc = "fetchPage" =>
        Flatten([j \in 1..Len(sections) |-> sections[j].content]) = LoadedBody

\* A document of four prose nodes, headings among them but not in front,
\* was segmented into more than one section.
C21_Witness ==
    /\ pc = "fetchPage"
    /\ Len(LoadedBody) = 4
    /\ LoadedBody[1].type = "paragraph"
    /\ LoadedBody[4].type = "paragraph"
    /\ Len(sections) = 2

\* The sections that start with a heading, by their index.
Headed == { j \in 1..Len(sections) : sections[j].heading # Undefined }

\* The base slug with the suffix -n, the base slug itself for n = 0.
Suffixed(base, n) == IF n = 0 THEN base ELSE base \o <<"-">> \o Decimal(n)

\* C22 as stated: the slugs of a document are pairwise distinct, and the
\* k-th section (k = 0, 1, ...) among those of one heading text has the
\* base slug of the text for k = 0 and the base slug with suffix -k otherwise.
C22_SuffixIsOccurrence ==
    pc = "fetchPage" =>
        /\ \A a, b \in Headed : sections[a].slug = sections[b].slug => a = b
        /\ \A j \in Headed :
              LET occurrence == Cardinality({ h \in Headed :
                                    h < j /\ sections[h].heading = sections[j].heading })
              IN  sections[j].slug = Suffixed(slugify(sections[j].heading), occurrence)

\* C22, amended: the slugs of a document are pairwise distinct; the slug
\* of a section is the first of base, base-1, base-2, ... that is not the
\* slug of an earlier section of the document, base being the slug form
\* of its heading text; so the k-th section of one heading text has the
\* suffix -k when the slug forms of the headings of the document are
\* all equal.
C22_FirstFreeSuffix ==
    pc = "fetchPage" =>
        /\ \A a, b \in Headed : sections[a].slug = sections[b].slug => a = b
        /\ \A j \in Headed :
              LET base    == slugify(sections[j].heading)
                  earlier == { sections[h].slug : h \in { x \in Headed : x < j } }
                  free    == { n \in 0..Len(sections) : Suffixed(base, n) \notin earlier }
              IN  /\ free # {}
                  /\ sections[j].slug =
                        Suffixed(base, CHOOSE n \in free : \A m \in free : n <= m)
        /\ (\A a, b \in Headed : slugify(sections[a].heading) = slugify(sections[b].heading))
              => \A j \in Headed :
                    sections[j].slug =
                        Suffixed(slugify(sections[j].heading),
                                 Cardinality({ h \in Headed : h < j }))

\* Three sections under one heading text got the base slug and the
\* suffixes -1 and -2.
C22_Witness ==
    /\ pc = "fetchPage"
    /\ Len(sections) = 3
    /\ \A j \in 1..3 : sections[j].heading = s_Usage
    /\ sections[1].slug = slugify(s_Usage)
    /\ sections[2].slug = Suffixed(slugify(s_Usage), 1)
    /\ sections[3].slug = Suffixed(slugify(s_Usage), 2)

\* C23: the slugs of a document depend on its own heading sequence only:
\* whatever documents were processed before it, in this run or an earlier
\* one, its sections are those a slugger without history gives, and its
\* first headed section has the base slug of its heading.
C23_SlugsOfOwnHeadingsOnly ==
    pc \in CallPcs \ {"load"} =>
        /\ sections = SectionsOf(splitTreeBy(LoadedBody), <<>>)
        /\ \A j \in Headed :
              (\A h \in Headed : j <= h) => sections[j].slug = slugify(sections[j].heading)

\* A later entry of the manifest whose document has a heading was processed
\* in a run in which the slugger of an earlier call had counted the same slug.
C23_Witness ==
    /\ pc = "fetchPage"
    /\ i > 1
    /\ Headed # {}
    /\ failedEntries = {}
    /\ \E j \in 1..(i - 1) :
          LET earlier == SectionsOf(splitTreeBy(filterMdx(content[embeddingSources[j].filePath])), <<>>)
          IN  \E a \in 1..Len(earlier), b \in Headed : earlier[a].slug = sections[b].slug

\* The properties of the meta export of the loaded document; none when the
\* document has no meta export of an object.
LoadedProperties ==
    LET found == SelectSeq(content[embeddingSources[i].filePath], isMetaExport)
    IN  IF found = <<>> THEN <<>>
        ELSE IF Head(found).estree.declaration.init.type # "ObjectExpression" THEN <<>>
        ELSE Head(found).estree.declaration.init.properties

\* The key a property is written with, identifier or quoted string.
WrittenKey(property) ==
    IF property.key.type = "Identifier" THEN property.key.name ELSE property.key.value[2]

\* The positions of the properties that define their key: those no later
\* property of the same key follows.
Defining(properties) ==
    { n \in 1..Len(properties) :
        /\ properties[n].type = "Property"
        /\ \A m \in (n + 1)..Len(properties) :
              properties[m].type = "Property" => WrittenKey(properties[m]) # WrittenKey(properties[n]) }

\* C24: of a meta export object, every property whose value is a number,
\* string or boolean literal appears in the extracted metadata under its key
\* with exactly the value of the literal, and a property whose value is not
\* a literal contributes no value.
C24_LiteralsKept ==
    (pc = "fetchPage" /\ meta.defined) =>
        \A n \in Defining(LoadedProperties) :
            LET property == LoadedProperties[n]
                key      == WrittenKey(property)
            IN  IF property.value.type = "Literal"
                THEN key \in DOMAIN meta.object /\ meta.object[key] = property.value.value
                ELSE key \in DOMAIN meta.object => meta.object[key] = Undefined

\* The raw text that was loaded.
LoadedText == content[embeddingSources[i].filePath]

\* C25: the checksum is a function of the normalised text only: a raw text
\* whose text after the unwrapping of the title tags is that of the loaded
\* document has the checksum of the loaded document, a raw text whose
\* normalised text is another one has another checksum, and the checksum of
\* the loaded document is the one its text has whenever it is computed.
C25_ChecksumOfNormalisedText ==
    pc = "fetchPage" =>
        /\ checksum = checksumOf(LoadedText)
        /\ \A other \in Probes :
              (replace(other) = replace(LoadedText)) <=> (checksumOf(other) = checksum)

\* The loaded text holds a title tag, which the normalisation unwraps; it was
\* compared with another raw text of the same normalised text and with one
\* of another normalised text.
C25_Witness ==
    /\ pc = "fetchPage"
    /\ replace(LoadedText) # LoadedText
    /\ \E other \in Probes : other # LoadedText /\ checksumOf(other) = checksum
    /\ \E other \in Probes : checksumOf(other) # checksum

\* C26: in the simpler generateEmbeddings, the run that follows a run
\* without any failed call, the content unchanged in between, goes through
\* its entries with the fetch of the document and the read of the page only:
\* no embedding call and no store write.
C26_SimpleSecondRunIdle ==
    (prevClean /\ changed = {} /\ pc \in CallPcs) => pc \in {"load", "fetchPage"}

\* C27: a section record is inserted only after the embedding call for the
\* content of that section has returned with status 200: the insert of
\* section k is reached from the answered embedding call of section k and
\* from nowhere else, and a record is added to the store by that insert
\* only; an embedding call that fails stores nothing, is not followed by the
\* insert, and ends the processing of the page in the catch block of the
\* entry, the checksum of the page left null.
C27_EmbeddingStep ==
    /\ (pc' = "insertSection" /\ (pc # "insertSection" \/ k' # k))
          => pc = "createEmbedding" /\ i \notin failedEntries' /\ k' = k /\ i' = i
    /\ (\E id \in PageIds : Len(secs'[id]) > Len(secs[id]))
          => pc = "insertSection" /\ secs' = [secs EXCEPT ![page] = Append(@, sections[k])]
    /\ (pc = "createEmbedding" /\ i \in failedEntries')
          => /\ secs' = secs
             /\ pages' = pages
             /\ pages[page].checksum = Null
             /\ Len(secs[page]) = k - 1
             /\ pc' \in {"load", "idle"}
             /\ i' # i
             /\ page' = NoPage

C27_InsertAfterEmbedding == [][C27_EmbeddingStep]_vars

\* The embedding call of the second section has been answered and its
\* record is about to be inserted after the record of the first section,
\* in a run in which the embedding call of an earlier entry failed.
C27_Witness ==
    /\ pc = "insertSection"
    /\ k = 2
    /\ secs[page] = <<sections[1]>>
    /\ failedEntries # {}
    /\ \E id \in PageIds : id # page /\ pages[id].checksum = Null /\ Len(secs[id]) = 1

\* The items listed in directory d and in the directories below it, at any
\* depth, each with its path and its type.
ItemsBelow(d) ==
    UNION { { [path |-> join(x, tree[x][n].name), type |-> tree[x][n].type] :
                n \in 1..Len(tree[x]) } :
            x \in { y \in DOMAIN tree : y = d \/ StartsWith(y, d \o <<"/">>) } }

\* The path that leads from directory d to the item.
RelativeTo(d, path) == SubSeq(path, Len(d) + 2, Len(path))

\* The rule of the claim for one item below the start directory d.
EligibleBelow(d, item) ==
    LET segs == Segments(RelativeTo(d, item.path))
        name == segs[Len(segs)]
    IN  /\ item.type = "file"
        /\ EndsWith(name, <<".", "m", "d">>) \/ EndsWith(name, <<".", "m", "d", "x">>)
        /\ name \notin ignoredFiles
        /\ \A n \in 1..(Len(segs) - 1) : segs[n] \notin ignoredDirectories

\* C28: a walk that has returned holds an entry, and one only, for a listed
\* item below its start directory exactly when the item is a file whose
\* name ends in .md or .mdx and is not an ignored file name, and no
\* directory between the start directory and the file is an ignored
\* directory; a directory has no entry of its own, whatever its name.
C28_EntryIffEligibleFile ==
    \A d \in DOMAIN calls :
        calls[d].st = "resolved" =>
            LET result == calls[d].result
                paths  == { result[n].path : n \in 1..Len(result) }
            IN  /\ \A item \in ItemsBelow(d) : item.path \in paths <=> EligibleBelow(d, item)
                /\ paths \subseteq { item.path : item \in ItemsBelow(d) }
                /\ Cardinality(paths) = Len(result)
                /\ \A item \in ItemsBelow(d) : item.type = "dir" => item.path \notin paths

\* walk('docs') has returned for the tree with a directory named x.md and a
\* directory named like an ignored file: the documents in them are entries,
\* the directories are not.
C28_Witness ==
    /\ tree = WalkTreeD
    /\ calls[s_docs].st = "resolved"
    /\ { calls[s_docs].result[n].path : n \in 1..Len(calls[s_docs].result) }
          = { join(join(s_docs, s_x_md), s_b_md), join(join(s_docs, s_app), s_q_md), join(s_docs, s_z_md) }

\* The indexes 1, ..., n in order.
UpTo(n) == [j \in 1..n |-> j]

\* The run is over: the loop has gone through the manifest, or the walk was
\* rejected and no entry was taken up.
RunOver == pc = "idle" /\ response \in {"success", "failure"}

\* C29: every call of a collaborator returning or failing in the end, a
\* run that was started is over in the end; while the loop is at entry i
\* the entries taken up are 1, ..., i, each once and in the order of the
\* manifest, and when the loop has ended they are all the entries of the
\* manifest.  (A run whose walk was rejected is over with no entry taken up.)
C29_RunTerminates ==
    /\ (pc # "idle") ~> RunOver
    /\ [](pc \in CallPcs => attempted = UpTo(i))
    /\ []((pc = "idle" /\ response = "success") => attempted = UpTo(Len(embeddingSources)))
    /\ []((pc = "idle" /\ response = "failure") => attempted = <<>>)

\* A run is over, each entry of its manifest taken up once, although the
\* processing of the first and of the last entry threw.
C29_Witness ==
    /\ RunOver
    /\ Len(embeddingSources) = 3
    /\ attempted = <<1, 2, 3>>
    /\ failedEntries = {1, 3}

\* C30: distinct entries of the manifest are reconciled against distinct
\* page records: no two entries, of different discovered files, have the
\* same page path.
C30_PagePathInjective ==
    \A a, b \in 1..Len(embeddingSources) :
        embeddingSources[a].filePath # embeddingSources[b].filePath
            => embeddingSources[a].path # embeddingSources[b].path

\* ------------------------------------------------------------------------
\* Properties of two runs at a time (specification SpecOverlap)
\* ------------------------------------------------------------------------

\* Each of the two runs has started and has returned.
BothReturned ==
    /\ pc = "idle"
    /\ suspended.pc = "idle"
    /\ response # "none"
    /\ suspended.response # "none"

\* C31: when two runs over the same store and the same content have both
\* returned, whatever the order their steps were taken in, every page with
\* a non-null checksum holds each section of its document exactly once, in
\* the order of the document.
C31_OverlapStoredOnce ==
    BothReturned =>
        \A id \in PageIds : pages[id].checksum # Null => PageComplete(id)

\* ------------------------------------------------------------------------
\* Properties of the environment check (specification SpecEnv)
\* ------------------------------------------------------------------------

\* The store URL, the store service key or the embedding API key is empty.
SomeEmpty == \E n \in EnvNames : env[n] = ""

C33_SkipStep ==
    SomeEmpty =>
        /\ pc = "idle"
        /\ pc' = "idle"
        /\ calls' = <<>>
        /\ embeddingSources' = <<>>
        /\ UNCHANGED store
        /\ touched' = {}
        /\ response' = "success"

\* C33: when the store URL, the store service key or the embedding API key
\* is empty, a run returns at once: no listing is asked for, no manifest is
\* built, the tables are left as they are, no embedding is asked for, and
\* the run is reported as a success, not as an error.
C33_MissingVariableSkips == [][C33_SkipStep]_vars

\* A run has returned at once with only the embedding API key empty.
C33_Witness ==
    /\ env["OPENAI_KEY"] = ""
    /\ env["SUPABASE_URL"] # ""
    /\ env["SUPABASE_SERVICE_ROLE_KEY"] # ""
    /\ pc = "idle"
    /\ response = "success"

\* ------------------------------------------------------------------------
\* Properties of the runs after removals (specification SpecRemoved)
\* ------------------------------------------------------------------------

\* The page paths of the manifest of the run.
ManifestPaths == { embeddingSources[j].path : j \in DOMAIN embeddingSources }

\* The pages whose path the manifest of the run does not hold.
Unlisted == { id \in PageIds : pages[id].path \notin ManifestPaths }

C32_FrameStep ==
    \A id \in Unlisted :
        /\ id <= Len(pages')
        /\ pages'[id] = pages[id]
        /\ secs'[id] = secs[id]

\* C32: no step of a run deletes or changes the page record or the
\* sections of a page whose path is not in the manifest of that run; the
\* page of a document removed upstream stays in the store as it was left.
C32_UnlistedPagesKept == [][C32_FrameStep]_vars

\* A run that has written to the store while the complete page of a removed
\* document is in it.
C32_Witness ==
    /\ pc = "updateChecksum"
    /\ touched # {}
    /\ \E id \in Unlisted : pages[id].checksum # Null /\ secs[id] # <<>>

\* ------------------------------------------------------------------------
\* Properties of the three segmenters (specification SpecAgree)
\* ------------------------------------------------------------------------

\* C34: whichever of the three processMdxForSearch implementations has
\* segmented the document, the checksum, the number of sections and the
\* heading and the slug of every section are those that the implementation
\* generateEmbeddings calls gives for the same document.
C34_SegmentersAgree ==
    pc = "fetchPage" =>
        LET first == processMdxForSearch(content[embeddingSources[i].filePath])
        IN  /\ checksum = first.checksum
            /\ Len(sections) = Len(first.sections)
            /\ \A n \in 1..Len(sections) :
                   /\ sections[n].heading = first.sections[n].heading
                   /\ sections[n].slug = first.sections[n].slug

====
